---- MODULE Spec2Model ----
(***************************************************************************)
(* TenTwentyFourX: commit-reveal wagering engine.                          *)
(*                                                                         *)
(* packages/foundry/contracts/TenTwentyFourX.sol holds two owner-operated  *)
(* contracts of that name:                                                 *)
(*   - the multi-roll contract (lines 22-358): 1..20 rolls per bet, a      *)
(*     fixed-fraction cap (MAX_PAYOUT_DIVISOR) at admission, claim burn;   *)
(*   - the reservation contract (lines 385-742): one roll per bet, a       *)
(*     running totalOutstandingPotentialPayouts, forfeit.                  *)
(* Spec is the multi-roll contract, SpecRes the reservation contract.      *)
(* SpecPayout is the worst-case payout computation of click alone, over    *)
(* every stake tier, multiplier and number of rolls.                       *)
(*                                                                         *)
(* Amounts are in whole tokens (1e18 base units).  Every stake tier is a   *)
(* multiple of 1,000 tokens, so each division by 100 in the contract is    *)
(* exact both in base units and in whole tokens.                           *)
(***************************************************************************)
EXTENDS Integers, Sequences, FiniteSets, TLC

VARIABLES
    balanceOf,                          \* token.balanceOf
    playerBets,                         \* mapping(address => Bet[])
    paused,
    withdrawRequestedAt,
    withdrawTo,
    owner,
    pendingOwner,
    totalBets,
    totalWins,
    totalBetAmount,
    totalPaidOut,
    totalBurned,
    totalOutstandingPotentialPayouts,   \* reservation contract only
    blockNumber,                        \* block.number
    timestamp,                          \* block.timestamp
    blockhashes,                        \* hash of each sealed block that holds a bet
    payoutCall                          \* arguments and result of a worst-case payout computation

vars == <<balanceOf, playerBets, paused, withdrawRequestedAt, withdrawTo, owner,
          pendingOwner, totalBets, totalWins, totalBetAmount, totalPaidOut,
          totalBurned, totalOutstandingPotentialPayouts, blockNumber, timestamp,
          blockhashes, payoutCall>>

----------------------------------------------------------------------------
(* Constants of the multi-roll contract *)

HOUSE_EDGE_PERCENT == 2
BURN_PERCENT == 1
REVEAL_WINDOW == 256
WITHDRAW_DELAY == 900
MAX_PAYOUT_DIVISOR == 5
MAX_ROLLS == 20
MAX_BATCH == 20

VALID_BETS == {2000, 10000, 50000, 100000, 500000, 1000000}
VALID_MULTIPLIERS == {2, 4, 8, 16, 32, 64, 128, 256, 512, 1024}

ZERO == "0x0"
GAME == "game"
BURN_ADDRESS == "0xdEaD"
GameOwner == "owner"
Treasury == "treasury"
Players == {"p1", "p2"}

----------------------------------------------------------------------------
(* Bounds and input sets *)

MaxBets == 2
MaxBatch == 2
HouseFunds == 800000

(* no computation requested, and a requested one not yet carried out *)
NoResult == <<>>
NoCall == [betAmount |-> 0, multiplier |-> 0, numRolls |-> 0, result |-> NoResult]

Callers == Players \cup {GameOwner}
Addresses == Callers \cup {GAME, BURN_ADDRESS, Treasury}
Secrets == {1, 2}
Salts == {1}
PresentedSalts == Salts \cup {2}
Entropy == {1, 2, 4}
Blocks == {1, 2, 257, 258}
CommitBlocks == {1}
Times == {1, 901}
BetInputs == {10000, 25000}
MultInputs == {2, 3, 8}
RollInputs == {0, 1, 2, 21}
WithdrawDests == {ZERO, Treasury}
FundInputs == {100000}
Funders == {Treasury}
OwnerInputs == {ZERO, "p2"}

----------------------------------------------------------------------------
(* keccak256(abi.encodePacked(...)): a mixing function of the packed words; *)
(* never zero, and injective on the (secret, salt) pairs used here.         *)

RECURSIVE keccakMix(_, _)
keccakMix(h, xs) ==
    IF xs = <<>> THEN h
    ELSE keccakMix(((h + Head(xs)) * 31) % 241, Tail(xs))

keccak256(xs) == keccakMix(12, xs) + 1

computeHash(secret, salt) == keccak256(<<secret, salt>>)

(* the secrets players commit to *)
Committed == {1}

HashInputs == {0} \cup {computeHash(c, t) : c \in Committed, t \in Salts}

(* blockhash(n): zero for the current and later blocks and for blocks more *)
(* than 256 behind the current one.                                        *)
blockhash(n) ==
    IF n < blockNumber /\ n + 256 >= blockNumber THEN blockhashes[n] ELSE 0

----------------------------------------------------------------------------
(* The contract state as one record, and call results *)

St == [ balanceOf |-> balanceOf, playerBets |-> playerBets, paused |-> paused,
        withdrawRequestedAt |-> withdrawRequestedAt, withdrawTo |-> withdrawTo,
        owner |-> owner, pendingOwner |-> pendingOwner, totalBets |-> totalBets,
        totalWins |-> totalWins, totalBetAmount |-> totalBetAmount,
        totalPaidOut |-> totalPaidOut, totalBurned |-> totalBurned,
        totalOutstandingPotentialPayouts |-> totalOutstandingPotentialPayouts ]

Install(s) ==
    /\ balanceOf' = s.balanceOf
    /\ playerBets' = s.playerBets
    /\ paused' = s.paused
    /\ withdrawRequestedAt' = s.withdrawRequestedAt
    /\ withdrawTo' = s.withdrawTo
    /\ owner' = s.owner
    /\ pendingOwner' = s.pendingOwner
    /\ totalBets' = s.totalBets
    /\ totalWins' = s.totalWins
    /\ totalBetAmount' = s.totalBetAmount
    /\ totalPaidOut' = s.totalPaidOut
    /\ totalBurned' = s.totalBurned
    /\ totalOutstandingPotentialPayouts' = s.totalOutstandingPotentialPayouts

Ok(s) == [err |-> "ok", st |-> s]
Revert(s, msg) == [err |-> msg, st |-> s]

(* A transaction commits its effects only when the call returns; a revert  *)
(* anywhere in it restores the state the call started from.                *)
Transaction(s, r) == IF r.err = "ok" THEN r ELSE Revert(s, r.err)

(* ERC20 transfer of the token mock: moves amount or fails               *)
transfer(bal, from, to, amount) ==
    IF bal[from] < amount THEN [ok |-> FALSE, bal |-> bal]
    ELSE [ok |-> TRUE,
          bal |-> [a \in DOMAIN bal |->
                     IF a = from /\ a = to THEN bal[a]
                     ELSE IF a = from THEN bal[a] - amount
                     ELSE IF a = to THEN bal[a] + amount
                     ELSE bal[a]]]

(* faulty variant: the burn destroys the tokens instead of sending them to *)
(* the burn address                                                        *)
burnTransferDestroys(bal, amount) ==
    IF bal[GAME] < amount THEN [ok |-> FALSE, bal |-> bal]
    ELSE [ok |-> TRUE, bal |-> [bal EXCEPT ![GAME] = @ - amount]]

(* token.safeTransfer(BURN_ADDRESS, amount) *)
burnTransfer(bal, amount) == transfer(bal, GAME, BURN_ADDRESS, amount)

isValidBet(betAmount) == betAmount \in VALID_BETS
(* faulty variant: any multiplier from 2 to 1024 passes *)
isMultiplierInRange(multiplier) == multiplier >= 2 /\ multiplier <= 1024

isValidMultiplier(multiplier) == multiplier \in VALID_MULTIPLIERS

----------------------------------------------------------------------------
(* The multi-roll contract (TenTwentyFourX.sol lines 22-358).  Players hold *)
(* a standing token allowance for the game, so safeTransferFrom fails only  *)
(* for lack of balance.                                                     *)

(* click: payout of one winning roll, and of all rolls winning *)
singlePayout(betAmount, multiplier) ==
    (betAmount * multiplier * (100 - HOUSE_EDGE_PERCENT)) \div 100

maxPayout(betAmount, multiplier, numRolls) == singlePayout(betAmount, multiplier) * numRolls

(* uint256 amounts beyond the range of the checker's integers: the pair *)
(* <<hi, lo>> with 0 <= lo < WideBase stands for hi * WideBase + lo     *)
WideBase == 1000000

toWide(n) == <<n \div WideBase, n % WideBase>>

(* x * k for a small factor k *)
wideMul(x, k) ==
    LET lo == x[2] * k
    IN  <<x[1] * k + lo \div WideBase, lo % WideBase>>

(* x / d, rounded down as uint256 division does, for a small divisor d *)
wideDiv(x, d) ==
    LET low == (x[1] % d) * WideBase + x[2]
    IN  <<x[1] \div d, low \div d>>

(* x % d *)
wideRem(x, d) == ((x[1] % d) * WideBase + x[2]) % d

(* faulty variant: the house edge is applied to the multiplier, with its *)
(* division, before the stake is multiplied in                           *)
wideSinglePayoutEdgeFirst(betAmount, multiplier) ==
    wideMul(toWide(betAmount), (multiplier * (100 - HOUSE_EDGE_PERCENT)) \div 100)

(* click: singlePayout, over the full range of stakes and multipliers *)
wideSinglePayout(betAmount, multiplier) ==
    wideDiv(wideMul(wideMul(toWide(betAmount), multiplier), 100 - HOUSE_EDGE_PERCENT), 100)

(* click: maxPayout = singlePayout * numRolls *)
wideMaxPayout(betAmount, multiplier, numRolls) ==
    wideMul(wideSinglePayout(betAmount, multiplier), numRolls)

(* faulty variant: the cap compares with the whole house balance *)
withinMaxPayoutNoDivisor(payout, currentBalance) == payout <= currentBalance

(* the cap of click: payout <= currentBalance / MAX_PAYOUT_DIVISOR *)
withinMaxPayout(payout, currentBalance) == payout <= currentBalance \div MAX_PAYOUT_DIVISOR

newBet(dataHash, betAmount, multiplier, numRolls) ==
    [ dataHash |-> dataHash, commitBlock |-> blockNumber, betAmount |-> betAmount,
      multiplier |-> multiplier, numRolls |-> numRolls, claimed |-> FALSE ]

(* click: the index reported with BetPlaced, the number of bets the sender *)
(* has when the call starts                                                *)
clickBetIndex(s, sender) == Len(s.playerBets[sender])

clickBody(s, sender, dataHash, betAmount, multiplier, numRolls) ==
    IF s.paused THEN Revert(s, "Game paused")
    ELSE IF dataHash = 0 THEN Revert(s, "Empty hash")
    ELSE IF ~isValidBet(betAmount) THEN Revert(s, "Invalid bet amount")
    ELSE IF ~isValidMultiplier(multiplier) THEN Revert(s, "Invalid multiplier")
    ELSE IF ~(numRolls >= 1 /\ numRolls <= MAX_ROLLS) THEN Revert(s, "1-20 rolls")
    ELSE
    LET currentBalance == s.balanceOf[GAME]
        totalBet == betAmount * numRolls
        take == transfer(s.balanceOf, sender, GAME, totalBet)
        s1 == [s EXCEPT !.balanceOf = take.bal]
        burnAmount == (totalBet * BURN_PERCENT) \div 100
        burn == burnTransfer(s1.balanceOf, burnAmount)
        s2 == [s1 EXCEPT !.balanceOf = burn.bal, !.totalBurned = @ + burnAmount]
        s3 == [s2 EXCEPT
                 !.playerBets[sender] =
                     Append(@, newBet(dataHash, betAmount, multiplier, numRolls)),
                 !.totalBets = @ + numRolls,
                 !.totalBetAmount = @ + totalBet]
    IN  IF ~withinMaxPayout(maxPayout(betAmount, multiplier, numRolls), currentBalance)
            THEN Revert(s, "Payout exceeds max (1/5 of house)")
        ELSE IF ~take.ok THEN Revert(s, "ERC20: transfer amount exceeds balance")
        ELSE IF ~burn.ok THEN Revert(s1, "ERC20: transfer amount exceeds balance")
        ELSE Ok(s3)

(* faulty variant: the stake is pulled before the checks, and a failed    *)
(* check returns without reverting                                        *)
clickStakeBeforeChecks(s, sender, dataHash, betAmount, multiplier, numRolls) ==
    LET r == clickBody(s, sender, dataHash, betAmount, multiplier, numRolls)
        take == transfer(s.balanceOf, sender, GAME, betAmount * numRolls)
    IN  IF r.err = "ok" \/ ~take.ok THEN Transaction(s, r)
        ELSE [err |-> r.err, st |-> [s EXCEPT !.balanceOf = take.bal]]

(* faulty variant: the stake moves from the pool to the player *)
clickStakeReversed(s, sender, dataHash, betAmount, multiplier, numRolls) ==
    IF s.paused THEN Revert(s, "Game paused")
    ELSE IF dataHash = 0 THEN Revert(s, "Empty hash")
    ELSE IF ~isValidBet(betAmount) THEN Revert(s, "Invalid bet amount")
    ELSE IF ~isValidMultiplier(multiplier) THEN Revert(s, "Invalid multiplier")
    ELSE IF ~(numRolls >= 1 /\ numRolls <= MAX_ROLLS) THEN Revert(s, "1-20 rolls")
    ELSE
    LET currentBalance == s.balanceOf[GAME]
        totalBet == betAmount * numRolls
        take == transfer(s.balanceOf, GAME, sender, totalBet)
        burnAmount == (totalBet * BURN_PERCENT) \div 100
        burn == burnTransfer(take.bal, burnAmount)
    IN  IF ~withinMaxPayout(maxPayout(betAmount, multiplier, numRolls), currentBalance)
            THEN Revert(s, "Payout exceeds max (1/5 of house)")
        ELSE IF ~take.ok \/ ~burn.ok
            THEN Revert(s, "ERC20: transfer amount exceeds balance")
        ELSE Ok([s EXCEPT
                   !.balanceOf = burn.bal,
                   !.totalBurned = @ + burnAmount,
                   !.playerBets[sender] =
                       Append(@, newBet(dataHash, betAmount, multiplier, numRolls)),
                   !.totalBets = @ + numRolls,
                   !.totalBetAmount = @ + totalBet])

(* faulty variant: totalBets counts one per bet, not one per roll *)
clickCountsBets(s, sender, dataHash, betAmount, multiplier, numRolls) ==
    LET r == Transaction(s, clickBody(s, sender, dataHash, betAmount, multiplier, numRolls))
    IN  IF r.err = "ok" THEN [r EXCEPT !.st.totalBets = s.totalBets + 1] ELSE r

click(s, sender, dataHash, betAmount, multiplier, numRolls) ==
    Transaction(s, clickBody(s, sender, dataHash, betAmount, multiplier, numRolls))

(* Legacy single-roll click *)
clickLegacyBody(s, sender, dataHash, betAmount, multiplier) ==
    IF s.paused THEN Revert(s, "Game paused")
    ELSE IF dataHash = 0 THEN Revert(s, "Empty hash")
    ELSE IF ~isValidBet(betAmount) THEN Revert(s, "Invalid bet amount")
    ELSE IF ~isValidMultiplier(multiplier) THEN Revert(s, "Invalid multiplier")
    ELSE
    LET payout == singlePayout(betAmount, multiplier)
        currentBalance == s.balanceOf[GAME]
        take == transfer(s.balanceOf, sender, GAME, betAmount)
        s1 == [s EXCEPT !.balanceOf = take.bal]
        burnAmount == (betAmount * BURN_PERCENT) \div 100
        burn == burnTransfer(s1.balanceOf, burnAmount)
        s2 == [s1 EXCEPT !.balanceOf = burn.bal, !.totalBurned = @ + burnAmount]
        s3 == [s2 EXCEPT
                 !.playerBets[sender] = Append(@, newBet(dataHash, betAmount, multiplier, 1)),
                 !.totalBets = @ + 1,
                 !.totalBetAmount = @ + betAmount]
    IN  IF ~withinMaxPayout(payout, currentBalance)
            THEN Revert(s, "Payout exceeds max (1/5 of house)")
        ELSE IF ~take.ok THEN Revert(s, "ERC20: transfer amount exceeds balance")
        ELSE IF ~burn.ok THEN Revert(s1, "ERC20: transfer amount exceeds balance")
        ELSE Ok(s3)

(* faulty variant: the legacy click does not count its burn *)
clickLegacyBurnUncounted(s, sender, dataHash, betAmount, multiplier) ==
    LET r == Transaction(s, clickLegacyBody(s, sender, dataHash, betAmount, multiplier))
    IN  IF r.err = "ok" THEN [r EXCEPT !.st.totalBurned = s.totalBurned] ELSE r

clickLegacy(s, sender, dataHash, betAmount, multiplier) ==
    Transaction(s, clickLegacyBody(s, sender, dataHash, betAmount, multiplier))

(* _reveal: roll i wins when its seed keccak256(secret, commitBlockHash, i) *)
(* is a multiple of the multiplier                                         *)
isWinningRoll(secret, commitBlockHash, multiplier, i) ==
    keccak256(<<secret, commitBlockHash, i>>) % multiplier = 0

(* the roll loop of _reveal: wins among rolls i, i+1, ..., numRolls-1 *)
RECURSIVE rollWins(_, _, _, _, _)
rollWins(secret, commitBlockHash, multiplier, numRolls, i) ==
    IF ~(i < numRolls) THEN 0
    ELSE (IF isWinningRoll(secret, commitBlockHash, multiplier, i) THEN 1 ELSE 0)
         + rollWins(secret, commitBlockHash, multiplier, numRolls, i + 1)

(* faulty variant: the entropy is the hash of the block before the commit, *)
(* which is sealed and known when the commit is accepted                   *)
parentBlockHashOf(commitBlock) ==
    IF commitBlock <= blockNumber /\ commitBlock + 255 >= blockNumber THEN 2 ELSE 0

(* _reveal: bytes32 commitBlockHash = blockhash(b.commitBlock) *)
commitBlockHashOf(commitBlock) == blockhash(commitBlock)

(* faulty variant: a reveal is let through in the commit block itself *)
fromCommitBlock(commitBlock) == blockNumber >= commitBlock

(* _reveal: require(block.number > b.commitBlock) *)
afterCommitBlock(commitBlock) == blockNumber > commitBlock

(* faulty variant: the presented secret and salt are not compared with the *)
(* stored commitment                                                       *)
commitmentUnchecked(secret, salt, dataHash) == TRUE

(* _reveal: keccak256(abi.encodePacked(secret, salt)) == b.dataHash *)
commitmentMatches(secret, salt, dataHash) == keccak256(<<secret, salt>>) = dataHash

(* faulty variant: a reveal without a winning roll is settled with payout 0 *)
anyWinCount(wins) == wins >= 0

(* _reveal: require(wins > 0) *)
hasWinningRoll(wins) == wins > 0

(* faulty variant: one roll's payout whatever the number of winning rolls *)
grossPayoutOneRoll(betAmount, multiplier, wins) ==
    (betAmount * multiplier * (100 - HOUSE_EDGE_PERCENT)) \div 100

(* _reveal: grossPayout = (b.betAmount * b.multiplier * (100 - HOUSE_EDGE_PERCENT)) / 100 * wins *)
grossPayoutOf(betAmount, multiplier, wins) ==
    ((betAmount * multiplier * (100 - HOUSE_EDGE_PERCENT)) \div 100) * wins

(* _reveal *)
revealInternal(s, player, betIndex, secret, salt) ==
    IF ~(betIndex < Len(s.playerBets[player])) THEN Revert(s, "Invalid bet index")
    ELSE
    LET b == s.playerBets[player][betIndex + 1]
        commitBlockHash == commitBlockHashOf(b.commitBlock)
        wins == rollWins(secret, commitBlockHash, b.multiplier, b.numRolls, 0)
        grossPayout == grossPayoutOf(b.betAmount, b.multiplier, wins)
        s1 == [s EXCEPT !.playerBets[player][betIndex + 1].claimed = TRUE,
                        !.totalWins = @ + wins,
                        !.totalPaidOut = @ + grossPayout]
        claimBurn == (grossPayout * BURN_PERCENT) \div 100
        burn == burnTransfer(s1.balanceOf, claimBurn)
        s2 == [s1 EXCEPT !.balanceOf = burn.bal, !.totalBurned = @ + claimBurn]
        netPayout == grossPayout - claimBurn
        pay == transfer(s2.balanceOf, GAME, player, netPayout)
        s3 == [s2 EXCEPT !.balanceOf = pay.bal]
    IN  IF ~(b.commitBlock # 0) THEN Revert(s, "No bet found")
        ELSE IF b.claimed THEN Revert(s, "Already claimed")
        ELSE IF ~afterCommitBlock(b.commitBlock) THEN Revert(s, "Wait one block")
        ELSE IF ~(commitBlockHash # 0) THEN Revert(s, "Bet expired (>256 blocks)")
        ELSE IF ~commitmentMatches(secret, salt, b.dataHash) THEN Revert(s, "Hash mismatch")
        ELSE IF ~hasWinningRoll(wins) THEN Revert(s, "No winning rolls")
        ELSE IF ~burn.ok THEN Revert(s1, "ERC20: transfer amount exceeds balance")
        ELSE IF ~pay.ok THEN Revert(s2, "ERC20: transfer amount exceeds balance")
        ELSE Ok(s3)

(* faulty variant: a settled bet is removed from the player's bets *)
revealDeletesBet(s, sender, betIndex, secret, salt) ==
    LET r == Transaction(s, revealInternal(s, sender, betIndex, secret, salt))
        kept == [k \in 1..(Len(s.playerBets[sender]) - 1) |->
                    IF k <= betIndex THEN r.st.playerBets[sender][k]
                    ELSE r.st.playerBets[sender][k + 1]]
    IN  IF r.err = "ok" THEN [r EXCEPT !.st.playerBets[sender] = kept] ELSE r

reveal(s, sender, betIndex, secret, salt) ==
    Transaction(s, revealInternal(s, sender, betIndex, secret, salt))

(* checkWin (legacy): the seed is keccak256(secret, blockHash), no roll index *)
checkWin(secret, blockHash, multiplier) ==
    keccak256(<<secret, blockHash>>) % multiplier = 0

(* checkWinAtIndex *)
checkWinAtIndex(secret, blockHash, multiplier, rollIndex) ==
    keccak256(<<secret, blockHash, rollIndex>>) % multiplier = 0

(* the loop of countWins from roll i on *)
RECURSIVE countWinsLoop(_, _, _, _, _)
countWinsLoop(secret, blockHash, multiplier, numRolls, i) ==
    IF ~(i < numRolls) THEN 0
    ELSE (IF keccak256(<<secret, blockHash, i>>) % multiplier = 0 THEN 1 ELSE 0)
         + countWinsLoop(secret, blockHash, multiplier, numRolls, i + 1)

(* countWins *)
countWins(secret, blockHash, multiplier, numRolls) ==
    countWinsLoop(secret, blockHash, multiplier, numRolls, 0)

(* getMultiRollPayout *)
getMultiRollPayout(betAmount, multiplier, wins) ==
    LET grossPayout == ((betAmount * multiplier * (100 - HOUSE_EDGE_PERCENT)) \div 100) * wins
        claimBurn == (grossPayout * BURN_PERCENT) \div 100
    IN  grossPayout - claimBurn

(* the loop of batchReveal from item i (1-based) on *)
RECURSIVE batchLoop(_, _, _, _, _, _)
batchLoop(s, sender, betIndices, secrets, salts, i) ==
    IF ~(i <= Len(betIndices)) THEN Ok(s)
    ELSE LET r == revealInternal(s, sender, betIndices[i], secrets[i], salts[i])
         IN  IF r.err # "ok" THEN r
             ELSE batchLoop(r.st, sender, betIndices, secrets, salts, i + 1)

batchRevealBody(s, sender, betIndices, secrets, salts) ==
    IF ~(Len(betIndices) = Len(secrets) /\ Len(secrets) = Len(salts))
        THEN Revert(s, "Array length mismatch")
    ELSE IF ~(Len(betIndices) <= MAX_BATCH) THEN Revert(s, "Too many reveals")
    ELSE batchLoop(s, sender, betIndices, secrets, salts, 1)

(* faulty variant: the items settled before a failing item stay settled *)
batchRevealKeepsSettled(s, sender, betIndices, secrets, salts) ==
    batchRevealBody(s, sender, betIndices, secrets, salts)

batchReveal(s, sender, betIndices, secrets, salts) ==
    Transaction(s, batchRevealBody(s, sender, betIndices, secrets, salts))

(* faulty variant: a request is accepted over a pending one *)
withdrawPendingIgnored(s) == TRUE

(* requestWithdraw: require(withdrawRequestedAt == 0) *)
noWithdrawPending(s) == s.withdrawRequestedAt = 0

(* faulty variant: requestWithdraw without onlyOwner *)
requestWithdrawByAnyone(s, sender, to) ==
    IF ~(to # ZERO) THEN Revert(s, "Invalid address")
    ELSE IF ~noWithdrawPending(s) THEN Revert(s, "Withdrawal already pending")
    ELSE Ok([s EXCEPT !.paused = TRUE, !.withdrawRequestedAt = timestamp, !.withdrawTo = to])

requestWithdraw(s, sender, to) ==
    IF ~(sender = s.owner) THEN Revert(s, "Not owner")
    ELSE IF ~(to # ZERO) THEN Revert(s, "Invalid address")
    ELSE IF ~noWithdrawPending(s) THEN Revert(s, "Withdrawal already pending")
    ELSE Ok([s EXCEPT !.paused = TRUE, !.withdrawRequestedAt = timestamp, !.withdrawTo = to])

(* faulty variant: the pause is lifted but the request stays recorded *)
cancelWithdrawKeepsRequest(s, sender) ==
    IF ~(sender = s.owner) THEN Revert(s, "Not owner")
    ELSE Ok([s EXCEPT !.paused = FALSE])

cancelWithdraw(s, sender) ==
    IF ~(sender = s.owner) THEN Revert(s, "Not owner")
    ELSE Ok([s EXCEPT !.withdrawRequestedAt = 0, !.withdrawTo = ZERO, !.paused = FALSE])

(* faulty variant: a successful withdrawal lifts the pause *)
executeWithdrawBodyUnpausing(s, sender) ==
    IF ~(sender = s.owner) THEN Revert(s, "Not owner")
    ELSE IF ~(s.withdrawRequestedAt # 0) THEN Revert(s, "No withdrawal requested")
    ELSE IF ~(timestamp >= s.withdrawRequestedAt + WITHDRAW_DELAY) THEN Revert(s, "Delay not met")
    ELSE
    LET to == s.withdrawTo
        amount == s.balanceOf[GAME]
        s1 == [s EXCEPT !.withdrawRequestedAt = 0, !.withdrawTo = ZERO, !.paused = FALSE]
        pay == transfer(s1.balanceOf, GAME, to, amount)
    IN  IF ~pay.ok THEN Revert(s1, "ERC20: transfer amount exceeds balance")
        ELSE Ok([s1 EXCEPT !.balanceOf = pay.bal])

(* faulty variant: the withdrawal is executed without waiting *)
delayIgnored(s) == TRUE

(* executeWithdraw: require(block.timestamp >= withdrawRequestedAt + WITHDRAW_DELAY) *)
delayMet(s) == timestamp >= s.withdrawRequestedAt + WITHDRAW_DELAY

executeWithdrawBody(s, sender) ==
    IF ~(sender = s.owner) THEN Revert(s, "Not owner")
    ELSE IF ~(s.withdrawRequestedAt # 0) THEN Revert(s, "No withdrawal requested")
    ELSE IF ~delayMet(s) THEN Revert(s, "Delay not met")
    ELSE
    LET to == s.withdrawTo
        amount == s.balanceOf[GAME]
        s1 == [s EXCEPT !.withdrawRequestedAt = 0, !.withdrawTo = ZERO]
        pay == transfer(s1.balanceOf, GAME, to, amount)
    IN  IF ~pay.ok THEN Revert(s1, "ERC20: transfer amount exceeds balance")
        ELSE Ok([s1 EXCEPT !.balanceOf = pay.bal])

executeWithdraw(s, sender) == Transaction(s, executeWithdrawBody(s, sender))

(* faulty variant: unpause does not look at the withdrawal request *)
unpauseWhilePending(s, sender) ==
    IF ~(sender = s.owner) THEN Revert(s, "Not owner")
    ELSE Ok([s EXCEPT !.paused = FALSE])

unpause(s, sender) ==
    IF ~(sender = s.owner) THEN Revert(s, "Not owner")
    ELSE IF ~(s.withdrawRequestedAt = 0) THEN Revert(s, "Cancel withdrawal first")
    ELSE Ok([s EXCEPT !.paused = FALSE])

proposeOwner(s, sender, newOwner) ==
    IF ~(sender = s.owner) THEN Revert(s, "Not owner")
    ELSE IF ~(newOwner # ZERO) THEN Revert(s, "Invalid owner")
    ELSE Ok([s EXCEPT !.pendingOwner = newOwner])

(* faulty variant: any caller may take the ownership *)
acceptOwnershipByAnyone(s, sender) ==
    Ok([s EXCEPT !.owner = sender, !.pendingOwner = ZERO])

acceptOwnership(s, sender) ==
    IF ~(sender = s.pendingOwner) THEN Revert(s, "Not pending owner")
    ELSE Ok([s EXCEPT !.owner = sender, !.pendingOwner = ZERO])

(* faulty variant: a proposed owner survives the renouncement *)
renounceOwnershipKeepsPending(s, sender) ==
    IF ~(sender = s.owner) THEN Revert(s, "Not owner")
    ELSE Ok([s EXCEPT !.owner = ZERO])

renounceOwnership(s, sender) ==
    IF ~(sender = s.owner) THEN Revert(s, "Not owner")
    ELSE Ok([s EXCEPT !.owner = ZERO, !.pendingOwner = ZERO])

----------------------------------------------------------------------------
(* The reservation contract (TenTwentyFourX.sol lines 385-742): one roll   *)
(* per bet; every open bet's payout is reserved in                         *)
(* totalOutstandingPotentialPayouts.  requestWithdraw, cancelWithdraw,     *)
(* unpause, proposeOwner and acceptOwnership read as in the multi-roll     *)
(* contract.                                                               *)

RES_VALID_BETS == {10000, 50000, 100000, 500000}

resIsValidBet(betAmount) == betAmount \in RES_VALID_BETS

(* click: the stake that stays in the pool after the burn *)
netBetOf(betAmount) == betAmount - (betAmount * BURN_PERCENT) \div 100

(* faulty variant: the check ignores the payouts already reserved *)
resHouseCanCoverIsolated(s, netBet, payout) == s.balanceOf[GAME] + netBet >= payout

(* the solvency check of click: balance + netBet >= outstanding + payout *)
resHouseCanCover(s, netBet, payout) ==
    s.balanceOf[GAME] + netBet >= s.totalOutstandingPotentialPayouts + payout

resNewBet(dataHash, betAmount, multiplier) ==
    [ dataHash |-> dataHash, commitBlock |-> blockNumber, betAmount |-> betAmount,
      multiplier |-> multiplier, claimed |-> FALSE ]

resClickBody(s, sender, dataHash, betAmount, multiplier) ==
    IF s.paused THEN Revert(s, "Game paused")
    ELSE IF dataHash = 0 THEN Revert(s, "Empty hash")
    ELSE IF ~resIsValidBet(betAmount) THEN Revert(s, "Invalid bet amount")
    ELSE IF ~isValidMultiplier(multiplier) THEN Revert(s, "Invalid multiplier")
    ELSE
    LET payout == (betAmount * multiplier * (100 - HOUSE_EDGE_PERCENT)) \div 100
        netBet == netBetOf(betAmount)
        take == transfer(s.balanceOf, sender, GAME, betAmount)
        s1 == [s EXCEPT !.balanceOf = take.bal]
        burnAmount == (betAmount * BURN_PERCENT) \div 100
        burn == burnTransfer(s1.balanceOf, burnAmount)
        s2 == [s1 EXCEPT !.balanceOf = burn.bal, !.totalBurned = @ + burnAmount]
        s3 == [s2 EXCEPT
                 !.playerBets[sender] = Append(@, resNewBet(dataHash, betAmount, multiplier)),
                 !.totalOutstandingPotentialPayouts = @ + payout,
                 !.totalBets = @ + 1,
                 !.totalBetAmount = @ + betAmount]
    IN  IF ~resHouseCanCover(s, netBet, payout)
            THEN Revert(s, "House underfunded for this bet")
        ELSE IF ~take.ok THEN Revert(s, "ERC20: transfer amount exceeds balance")
        ELSE IF ~burn.ok THEN Revert(s1, "ERC20: transfer amount exceeds balance")
        ELSE Ok(s3)

resClick(s, sender, dataHash, betAmount, multiplier) ==
    Transaction(s, resClickBody(s, sender, dataHash, betAmount, multiplier))

(* faulty variant: _reveal without the claimed check *)
resRevealInternalUnguarded(s, player, betIndex, secret, salt) ==
    IF ~(betIndex < Len(s.playerBets[player])) THEN Revert(s, "Invalid bet index")
    ELSE
    LET b == s.playerBets[player][betIndex + 1]
        commitBlockHash == blockhash(b.commitBlock)
        computedHash == keccak256(<<secret, salt>>)
        randomSeed == keccak256(<<secret, commitBlockHash>>)
        payout == (b.betAmount * b.multiplier * (100 - HOUSE_EDGE_PERCENT)) \div 100
        s1 == [s EXCEPT !.playerBets[player][betIndex + 1].claimed = TRUE,
                        !.totalOutstandingPotentialPayouts = @ - payout,
                        !.totalWins = @ + 1,
                        !.totalPaidOut = @ + payout]
        pay == transfer(s1.balanceOf, GAME, player, payout)
        s2 == [s1 EXCEPT !.balanceOf = pay.bal]
    IN  IF ~(b.commitBlock # 0) THEN Revert(s, "No bet found")
        ELSE IF ~(blockNumber > b.commitBlock) THEN Revert(s, "Wait one block")
        ELSE IF ~(commitBlockHash # 0) THEN Revert(s, "Bet expired (>256 blocks)")
        ELSE IF ~(computedHash = b.dataHash) THEN Revert(s, "Hash mismatch")
        ELSE IF ~(randomSeed % b.multiplier = 0) THEN Revert(s, "Not a winner")
        ELSE IF payout > s.totalOutstandingPotentialPayouts THEN Revert(s, "Panic(0x11)")
        ELSE IF ~pay.ok THEN Revert(s1, "ERC20: transfer amount exceeds balance")
        ELSE Ok(s2)

(* _reveal *)
resRevealInternal(s, player, betIndex, secret, salt) ==
    IF ~(betIndex < Len(s.playerBets[player])) THEN Revert(s, "Invalid bet index")
    ELSE
    LET b == s.playerBets[player][betIndex + 1]
        commitBlockHash == blockhash(b.commitBlock)
        computedHash == keccak256(<<secret, salt>>)
        randomSeed == keccak256(<<secret, commitBlockHash>>)
        payout == (b.betAmount * b.multiplier * (100 - HOUSE_EDGE_PERCENT)) \div 100
        s1 == [s EXCEPT !.playerBets[player][betIndex + 1].claimed = TRUE,
                        !.totalOutstandingPotentialPayouts = @ - payout,
                        !.totalWins = @ + 1,
                        !.totalPaidOut = @ + payout]
        pay == transfer(s1.balanceOf, GAME, player, payout)
        s2 == [s1 EXCEPT !.balanceOf = pay.bal]
    IN  IF ~(b.commitBlock # 0) THEN Revert(s, "No bet found")
        ELSE IF b.claimed THEN Revert(s, "Already claimed")
        ELSE IF ~(blockNumber > b.commitBlock) THEN Revert(s, "Wait one block")
        ELSE IF ~(commitBlockHash # 0) THEN Revert(s, "Bet expired (>256 blocks)")
        ELSE IF ~(computedHash = b.dataHash) THEN Revert(s, "Hash mismatch")
        ELSE IF ~(randomSeed % b.multiplier = 0) THEN Revert(s, "Not a winner")
        ELSE IF payout > s.totalOutstandingPotentialPayouts THEN Revert(s, "Panic(0x11)")
        ELSE IF ~pay.ok THEN Revert(s1, "ERC20: transfer amount exceeds balance")
        ELSE Ok(s2)

(* faulty variant: the bet settled is another player's, not the caller's *)
resRevealOfOther(s, sender, betIndex, secret, salt) ==
    LET player == CHOOSE q \in Players : q # sender
    IN  Transaction(s, resRevealInternal(s, player, betIndex, secret, salt))

resReveal(s, sender, betIndex, secret, salt) ==
    Transaction(s, resRevealInternal(s, sender, betIndex, secret, salt))

RECURSIVE resBatchLoop(_, _, _, _, _, _)
resBatchLoop(s, sender, betIndices, secrets, salts, i) ==
    IF ~(i <= Len(betIndices)) THEN Ok(s)
    ELSE LET r == resRevealInternal(s, sender, betIndices[i], secrets[i], salts[i])
         IN  IF r.err # "ok" THEN r
             ELSE resBatchLoop(r.st, sender, betIndices, secrets, salts, i + 1)

resBatchRevealBody(s, sender, betIndices, secrets, salts) ==
    IF ~(Len(betIndices) = Len(secrets) /\ Len(secrets) = Len(salts))
        THEN Revert(s, "Array length mismatch")
    ELSE IF ~(Len(betIndices) <= MAX_BATCH) THEN Revert(s, "Too many reveals")
    ELSE resBatchLoop(s, sender, betIndices, secrets, salts, 1)

resBatchReveal(s, sender, betIndices, secrets, salts) ==
    Transaction(s, resBatchRevealBody(s, sender, betIndices, secrets, salts))

(* faulty variant: forfeit marks the bet claimed and keeps its reservation *)
resForfeitKeepsReservation(s, sender, betIndex) ==
    IF ~(betIndex < Len(s.playerBets[sender])) THEN Revert(s, "Invalid bet index")
    ELSE
    LET b == s.playerBets[sender][betIndex + 1]
    IN  IF ~(b.commitBlock # 0) THEN Revert(s, "No bet found")
        ELSE IF b.claimed THEN Revert(s, "Already claimed")
        ELSE IF ~(blockNumber > b.commitBlock) THEN Revert(s, "Wait one block")
        ELSE Ok([s EXCEPT !.playerBets[sender][betIndex + 1].claimed = TRUE])

(* faulty variant: a forfeit of a claimed bet opens the bet again *)
resForfeitReopens(s, sender, betIndex) ==
    IF ~(betIndex < Len(s.playerBets[sender])) THEN Revert(s, "Invalid bet index")
    ELSE
    LET b == s.playerBets[sender][betIndex + 1]
        payout == (b.betAmount * b.multiplier * (100 - HOUSE_EDGE_PERCENT)) \div 100
    IN  IF ~(b.commitBlock # 0) THEN Revert(s, "No bet found")
        ELSE IF ~(blockNumber > b.commitBlock) THEN Revert(s, "Wait one block")
        ELSE IF b.claimed
            THEN Ok([s EXCEPT !.playerBets[sender][betIndex + 1].claimed = FALSE,
                              !.totalOutstandingPotentialPayouts = @ + payout])
        ELSE IF payout > s.totalOutstandingPotentialPayouts THEN Revert(s, "Panic(0x11)")
        ELSE Ok([s EXCEPT !.playerBets[sender][betIndex + 1].claimed = TRUE,
                          !.totalOutstandingPotentialPayouts = @ - payout])

(* faulty variant: forfeit is gated by the pause flag as click is *)
resForfeitWhenNotPaused(s, sender, betIndex) ==
    IF s.paused THEN Revert(s, "Game paused")
    ELSE IF ~(betIndex < Len(s.playerBets[sender])) THEN Revert(s, "Invalid bet index")
    ELSE
    LET b == s.playerBets[sender][betIndex + 1]
        payout == (b.betAmount * b.multiplier * (100 - HOUSE_EDGE_PERCENT)) \div 100
    IN  IF ~(b.commitBlock # 0) THEN Revert(s, "No bet found")
        ELSE IF b.claimed THEN Revert(s, "Already claimed")
        ELSE IF ~(blockNumber > b.commitBlock) THEN Revert(s, "Wait one block")
        ELSE IF payout > s.totalOutstandingPotentialPayouts THEN Revert(s, "Panic(0x11)")
        ELSE Ok([s EXCEPT !.playerBets[sender][betIndex + 1].claimed = TRUE,
                          !.totalOutstandingPotentialPayouts = @ - payout])

(* faulty variant: a forfeit is refused once the reveal window has closed *)
resForfeitInsideWindow(commitBlock) ==
    blockNumber > commitBlock /\ blockNumber <= commitBlock + REVEAL_WINDOW

(* forfeit: require(block.number > b.commitBlock) *)
resForfeitAfterCommit(commitBlock) == blockNumber > commitBlock

resForfeit(s, sender, betIndex) ==
    IF ~(betIndex < Len(s.playerBets[sender])) THEN Revert(s, "Invalid bet index")
    ELSE
    LET b == s.playerBets[sender][betIndex + 1]
        payout == (b.betAmount * b.multiplier * (100 - HOUSE_EDGE_PERCENT)) \div 100
    IN  IF ~(b.commitBlock # 0) THEN Revert(s, "No bet found")
        ELSE IF b.claimed THEN Revert(s, "Already claimed")
        ELSE IF ~resForfeitAfterCommit(b.commitBlock) THEN Revert(s, "Wait one block")
        ELSE IF payout > s.totalOutstandingPotentialPayouts THEN Revert(s, "Panic(0x11)")
        ELSE Ok([s EXCEPT !.playerBets[sender][betIndex + 1].claimed = TRUE,
                          !.totalOutstandingPotentialPayouts = @ - payout])

(* x + y *)
wideAdd(x, y) ==
    LET lo == x[2] + y[2]
    IN  <<x[1] + y[1] + lo \div WideBase, lo % WideBase>>

(* x >= y *)
wideGeq(x, y) == x[1] > y[1] \/ (x[1] = y[1] /\ x[2] >= y[2])

(* the multipliers in the order of the array VALID_MULTIPLIERS *)
RES_VALID_MULTIPLIERS == <<2, 4, 8, 16, 32, 64, 128, 256, 512, 1024>>

(* the solvency check of click over the full range of stakes and           *)
(* multipliers: balance + netBet >= outstanding + payout                   *)
resClickCovers(s, betAmount, multiplier) ==
    LET payout == wideDiv(wideMul(wideMul(toWide(betAmount), multiplier),
                                  100 - HOUSE_EDGE_PERCENT), 100)
        netBet == betAmount - (betAmount * BURN_PERCENT) \div 100
    IN  wideGeq(toWide(s.balanceOf[GAME] + netBet),
                wideAdd(toWide(s.totalOutstandingPotentialPayouts), payout))

(* faulty variant: the view does not count the payouts already reserved *)
maxMultiplierCoversIsolated(s, betAmount, m) ==
    LET currentBalance == s.balanceOf[GAME]
        netBet == betAmount - (betAmount * BURN_PERCENT) \div 100
        payout == wideDiv(wideMul(wideMul(toWide(betAmount), m),
                                  100 - HOUSE_EDGE_PERCENT), 100)
    IN  wideGeq(toWide(currentBalance + netBet), payout)

(* maxMultiplierForBet: the test of its loop for the multiplier m *)
maxMultiplierCovers(s, betAmount, m) ==
    LET currentBalance == s.balanceOf[GAME]
        netBet == betAmount - (betAmount * BURN_PERCENT) \div 100
        payout == wideDiv(wideMul(wideMul(toWide(betAmount), m),
                                  100 - HOUSE_EDGE_PERCENT), 100)
    IN  wideGeq(toWide(currentBalance + netBet),
                wideAdd(toWide(s.totalOutstandingPotentialPayouts), payout))

(* maxMultiplierForBet: the loop from the last multiplier down to the first *)
RECURSIVE maxMultiplierLoop(_, _, _)
maxMultiplierLoop(s, betAmount, i) ==
    IF ~(i >= 0) THEN 0
    ELSE LET m == RES_VALID_MULTIPLIERS[i + 1]
         IN  IF maxMultiplierCovers(s, betAmount, m) THEN m
             ELSE maxMultiplierLoop(s, betAmount, i - 1)

maxMultiplierForBet(s, betAmount) ==
    maxMultiplierLoop(s, betAmount, Len(RES_VALID_MULTIPLIERS) - 1)

(* getBet, getActiveBets: blocks left before expiry = commitBlock + 256 *)
resBlocksLeft(commitBlock) ==
    LET expiry == commitBlock + REVEAL_WINDOW
    IN  IF blockNumber < expiry THEN expiry - blockNumber ELSE 0

(* getBet: the values returned, or the error of its require *)
resGetBet(s, player, betIndex) ==
    IF ~(betIndex < Len(s.playerBets[player]))
        THEN [err |-> "Invalid index", dataHash |-> 0, commitBlock |-> 0,
              betAmount |-> 0, multiplier |-> 0, claimed |-> FALSE, blocksLeft |-> 0]
    ELSE
    LET b == s.playerBets[player][betIndex + 1]
        left == IF b.commitBlock # 0 /\ ~b.claimed
                    THEN resBlocksLeft(b.commitBlock) ELSE 0
    IN  [err |-> "ok", dataHash |-> b.dataHash, commitBlock |-> b.commitBlock,
         betAmount |-> b.betAmount, multiplier |-> b.multiplier,
         claimed |-> b.claimed, blocksLeft |-> left]

(* getActiveBets: the first loop, counting at most 50 unclaimed bets from *)
(* the last bet down                                                      *)
RECURSIVE resCountActive(_, _, _)
resCountActive(bets, i, count) ==
    IF ~(i > 0 /\ count < 50) THEN count
    ELSE resCountActive(bets, i - 1,
             IF ~bets[i].claimed /\ bets[i].commitBlock # 0 THEN count + 1 ELSE count)

(* getActiveBets: the second loop, one entry of the five arrays per *)
(* unclaimed bet                                                    *)
RECURSIVE resFillActive(_, _, _, _)
resFillActive(bets, i, idx, count) ==
    IF ~(i > 0 /\ idx < count) THEN <<>>
    ELSE IF ~bets[i].claimed /\ bets[i].commitBlock # 0
        THEN <<[index |-> i - 1, commitBlock |-> bets[i].commitBlock,
                betAmount |-> bets[i].betAmount, multiplier |-> bets[i].multiplier,
                blocksLeft |-> resBlocksLeft(bets[i].commitBlock)]>>
             \o resFillActive(bets, i - 1, idx + 1, count)
        ELSE resFillActive(bets, i - 1, idx, count)

resGetActiveBets(s, player) ==
    LET bets == s.playerBets[player]
    IN  resFillActive(bets, Len(bets), 0, resCountActive(bets, Len(bets), 0))

(* faulty variant: a withdrawal also releases everything that is reserved *)
resExecuteWithdrawReleasing(s, sender) ==
    IF ~(sender = s.owner) THEN Revert(s, "Not owner")
    ELSE IF ~(s.withdrawRequestedAt # 0) THEN Revert(s, "No withdrawal requested")
    ELSE IF ~(timestamp >= s.withdrawRequestedAt + WITHDRAW_DELAY) THEN Revert(s, "Delay not met")
    ELSE
    LET to == s.withdrawTo
        balance == s.balanceOf[GAME]
        amount == balance - s.totalOutstandingPotentialPayouts
        s1 == [s EXCEPT !.withdrawRequestedAt = 0, !.withdrawTo = ZERO,
                        !.totalOutstandingPotentialPayouts = 0]
        pay == transfer(s1.balanceOf, GAME, to, amount)
    IN  IF ~(balance > s.totalOutstandingPotentialPayouts) THEN Revert(s, "Nothing withdrawable")
        ELSE IF ~pay.ok THEN Revert(s1, "ERC20: transfer amount exceeds balance")
        ELSE Ok([s1 EXCEPT !.balanceOf = pay.bal])

resExecuteWithdrawBody(s, sender) ==
    IF ~(sender = s.owner) THEN Revert(s, "Not owner")
    ELSE IF ~(s.withdrawRequestedAt # 0) THEN Revert(s, "No withdrawal requested")
    ELSE IF ~(timestamp >= s.withdrawRequestedAt + WITHDRAW_DELAY) THEN Revert(s, "Delay not met")
    ELSE
    LET to == s.withdrawTo
        balance == s.balanceOf[GAME]
        amount == balance - s.totalOutstandingPotentialPayouts
        s1 == [s EXCEPT !.withdrawRequestedAt = 0, !.withdrawTo = ZERO]
        pay == transfer(s1.balanceOf, GAME, to, amount)
    IN  IF ~(balance > s.totalOutstandingPotentialPayouts) THEN Revert(s, "Nothing withdrawable")
        ELSE IF ~pay.ok THEN Revert(s1, "ERC20: transfer amount exceeds balance")
        ELSE Ok([s1 EXCEPT !.balanceOf = pay.bal])

resExecuteWithdraw(s, sender) == Transaction(s, resExecuteWithdrawBody(s, sender))

----------------------------------------------------------------------------
(* State machine of the multi-roll contract *)

(* the pool is funded and the players hold stakes *)
InitialFunds ==
    [a \in Addresses |->
        IF a = GAME THEN HouseFunds
        ELSE IF a = "p1" THEN 20000
        ELSE IF a = "p2" THEN 10000
                ELSE 0]

ContractInit ==
    /\ balanceOf = InitialFunds
    /\ playerBets = [p \in Players |-> <<>>]
    /\ paused = FALSE
    /\ withdrawRequestedAt = 0
    /\ withdrawTo = ZERO
    /\ owner = GameOwner
    /\ pendingOwner = ZERO
    /\ totalBets = 0
    /\ totalWins = 0
    /\ totalBetAmount = 0
    /\ totalPaidOut = 0
    /\ totalBurned = 0
    /\ totalOutstandingPotentialPayouts = 0
    /\ blockNumber = 1
    /\ timestamp = 1
    /\ blockhashes = [b \in Blocks |-> 0]

Init ==
    /\ ContractInit
    /\ payoutCall = NoCall

BetCount == Len(playerBets["p1"]) + Len(playerBets["p2"])

BatchSeqs(S) == UNION {[1..n -> S] : n \in 0..MaxBatch}

(* a call that returns commits its state; a call that reverts is no step *)
Commit(r) ==
    /\ Install(r.st)
    /\ UNCHANGED <<blockNumber, timestamp, blockhashes, payoutCall>>

Click ==
    \E p \in Players, h \in HashInputs, a \in BetInputs, m \in MultInputs, n \in RollInputs :
        /\ BetCount < MaxBets
        /\ blockNumber \in CommitBlocks
        /\ LET r == click(St, p, h, a, m, n)
           IN  /\ r.err = "ok"
               /\ Commit(r)

ClickLegacy ==
    \E p \in Players, h \in HashInputs, a \in BetInputs, m \in MultInputs :
        /\ BetCount < MaxBets
        /\ blockNumber \in CommitBlocks
        /\ LET r == clickLegacy(St, p, h, a, m)
           IN  /\ r.err = "ok"
               /\ Commit(r)

Reveal ==
    \E p \in Players, i \in 0..MaxBets, secret \in Secrets, salt \in Salts :
        LET r == reveal(St, p, i, secret, salt)
        IN  /\ r.err = "ok"
            /\ Commit(r)

(* batches of the committed secrets; a batch with another secret reverts *)
BatchItems == (0..(MaxBets - 1)) \X Committed \X Salts

(* batchReveal called with the arrays of a sequence of items *)
batchRevealItems(s, sender, items) ==
    batchReveal(s, sender, [k \in DOMAIN items |-> items[k][1]],
                           [k \in DOMAIN items |-> items[k][2]],
                           [k \in DOMAIN items |-> items[k][3]])

BatchReveal ==
    \E p \in Players, items \in BatchSeqs(BatchItems) :
        LET r == batchRevealItems(St, p, items)
        IN  /\ items # <<>>
            /\ r.err = "ok"
            /\ Commit(r)

RequestWithdraw ==
    \E c \in Callers, to \in WithdrawDests :
        LET r == requestWithdraw(St, c, to)
        IN  /\ r.err = "ok"
            /\ Commit(r)

CancelWithdraw ==
    \E c \in Callers :
        LET r == cancelWithdraw(St, c)
        IN  /\ r.err = "ok"
            /\ Commit(r)

ExecuteWithdraw ==
    \E c \in Callers :
        LET r == executeWithdraw(St, c)
        IN  /\ r.err = "ok"
            /\ Commit(r)

Unpause ==
    \E c \in Callers :
        LET r == unpause(St, c)
        IN  /\ r.err = "ok"
            /\ Commit(r)

ProposeOwner ==
    \E c \in Callers, newOwner \in OwnerInputs :
        LET r == proposeOwner(St, c, newOwner)
        IN  /\ r.err = "ok"
            /\ Commit(r)

AcceptOwnership ==
    \E c \in Callers :
        LET r == acceptOwnership(St, c)
        IN  /\ r.err = "ok"
            /\ Commit(r)

RenounceOwnership ==
    \E c \in Callers :
        LET r == renounceOwnership(St, c)
        IN  /\ r.err = "ok"
            /\ Commit(r)

(* an emptied house is funded again by a plain token transfer to the contract *)
Fund ==
    \E a \in Funders, amount \in FundInputs :
        LET t == transfer(balanceOf, a, GAME, amount)
        IN  /\ balanceOf[GAME] = 0
            /\ t.ok
            /\ balanceOf' = t.bal
            /\ UNCHANGED <<playerBets, paused, withdrawRequestedAt, withdrawTo, owner,
                           pendingOwner, totalBets, totalWins, totalBetAmount,
                           totalPaidOut, totalBurned, totalOutstandingPotentialPayouts,
                           blockNumber, timestamp, blockhashes, payoutCall>>

HoldsBet(n) ==
    \E p \in Players : \E i \in 1..Len(playerBets[p]) : playerBets[p][i].commitBlock = n

(* the chain moves on to a later block; the block left behind is sealed and *)
(* its hash becomes known                                                   *)
Roll ==
    \E n \in Blocks :
        /\ n > blockNumber
        /\ blockNumber' = n
        /\ IF HoldsBet(blockNumber)
             THEN \E e \in Entropy : blockhashes' = [blockhashes EXCEPT ![blockNumber] = e]
             ELSE UNCHANGED blockhashes
        /\ UNCHANGED <<balanceOf, playerBets, paused, withdrawRequestedAt, withdrawTo,
                       owner, pendingOwner, totalBets, totalWins, totalBetAmount,
                       totalPaidOut, totalBurned, totalOutstandingPotentialPayouts,
                       timestamp, payoutCall>>

Warp ==
    \E t \in Times :
        /\ t > timestamp
        /\ timestamp' = t
        /\ UNCHANGED <<balanceOf, playerBets, paused, withdrawRequestedAt, withdrawTo,
                       owner, pendingOwner, totalBets, totalWins, totalBetAmount,
                       totalPaidOut, totalBurned, totalOutstandingPotentialPayouts,
                       blockNumber, blockhashes, payoutCall>>

Next ==
    \/ ClickLegacy
    \/ Click
    \/ Reveal
    \/ BatchReveal
    \/ RequestWithdraw
    \/ Unpause
    \/ CancelWithdraw
    \/ ExecuteWithdraw
    \/ ProposeOwner
    \/ AcceptOwnership
    \/ RenounceOwnership
    \/ Fund
    \/ Roll
    \/ Warp

Spec == Init /\ [][Next]_vars

----------------------------------------------------------------------------
(* State machine of the reservation contract *)

ResClick ==
    \E p \in Players, h \in HashInputs, a \in BetInputs, m \in MultInputs :
        /\ BetCount < MaxBets
        /\ blockNumber \in CommitBlocks
        /\ LET r == resClick(St, p, h, a, m)
           IN  /\ r.err = "ok"
               /\ Commit(r)

ResReveal ==
    \E p \in Players, i \in 0..MaxBets, secret \in Secrets, salt \in Salts :
        LET r == resReveal(St, p, i, secret, salt)
        IN  /\ r.err = "ok"
            /\ Commit(r)

resBatchRevealItems(s, sender, items) ==
    resBatchReveal(s, sender, [k \in DOMAIN items |-> items[k][1]],
                              [k \in DOMAIN items |-> items[k][2]],
                              [k \in DOMAIN items |-> items[k][3]])

ResBatchReveal ==
    \E p \in Players, items \in BatchSeqs(BatchItems) :
        LET r == resBatchRevealItems(St, p, items)
        IN  /\ items # <<>>
            /\ r.err = "ok"
            /\ Commit(r)

ResForfeit ==
    \E p \in Players, i \in 0..MaxBets :
        LET r == resForfeit(St, p, i)
        IN  /\ r.err = "ok"
            /\ Commit(r)

ResExecuteWithdraw ==
    \E c \in Callers :
        LET r == resExecuteWithdraw(St, c)
        IN  /\ r.err = "ok"
            /\ Commit(r)

ResNext ==
    \/ ResClick
    \/ ResReveal
    \/ ResBatchReveal
    \/ ResForfeit
    \/ RequestWithdraw
    \/ Unpause
    \/ CancelWithdraw
    \/ ResExecuteWithdraw
    \/ ProposeOwner
    \/ AcceptOwnership
    \/ Fund
    \/ Roll
    \/ Warp

SpecRes == Init /\ [][ResNext]_vars

----------------------------------------------------------------------------
(* The worst-case payout computation of click on its own: every stake tier, *)
(* every multiplier and every number of rolls click accepts                 *)

InitPayout ==
    /\ ContractInit
    /\ payoutCall \in [betAmount : VALID_BETS, multiplier : VALID_MULTIPLIERS,
                       numRolls : 1..MAX_ROLLS, result : {NoResult}]

ComputeMaxPayout ==
    /\ payoutCall.result = NoResult
    /\ payoutCall' = [payoutCall EXCEPT !.result =
                        wideMaxPayout(payoutCall.betAmount, payoutCall.multiplier,
                                      payoutCall.numRolls)]
    /\ UNCHANGED <<balanceOf, playerBets, paused, withdrawRequestedAt, withdrawTo, owner,
                   pendingOwner, totalBets, totalWins, totalBetAmount, totalPaidOut,
                   totalBurned, totalOutstandingPotentialPayouts, blockNumber, timestamp,
                   blockhashes>>

NextPayout == ComputeMaxPayout

SpecPayout == InitPayout /\ [][NextPayout]_vars


----------------------------------------------------------------------------
(* Reserved liability: the worst-case payouts of the bets not yet claimed *)

(* worst-case payout of a bet of the multi-roll contract: all rolls win *)
worstCasePayout(b) == maxPayout(b.betAmount, b.multiplier, b.numRolls)

(* payout of a bet of the reservation contract *)
resWorstCasePayout(b) == singlePayout(b.betAmount, b.multiplier)

RECURSIVE openPayouts(_, _)
openPayouts(bets, i) ==
    IF i > Len(bets) THEN 0
    ELSE (IF bets[i].claimed THEN 0 ELSE worstCasePayout(bets[i]))
         + openPayouts(bets, i + 1)

RECURSIVE resOpenPayouts(_, _)
resOpenPayouts(bets, i) ==
    IF i > Len(bets) THEN 0
    ELSE (IF bets[i].claimed THEN 0 ELSE resWorstCasePayout(bets[i]))
         + resOpenPayouts(bets, i + 1)

RECURSIVE sumOver(_, _)
sumOver(P, amountOf) ==
    IF P = {} THEN 0
    ELSE LET p == CHOOSE x \in P : TRUE
         IN  amountOf[p] + sumOver(P \ {p}, amountOf)

reservedLiability(s) ==
    sumOver(Players, [p \in Players |-> openPayouts(s.playerBets[p], 1)])

resReservedLiability(s) ==
    sumOver(Players, [p \in Players |-> resOpenPayouts(s.playerBets[p], 1)])

OpenBets == {<<p, i>> \in Players \X (0..(MaxBets - 1)) :
                i < Len(playerBets[p]) /\ ~playerBets[p][i + 1].claimed}

ClaimedBets == {<<p, i>> \in Players \X (0..(MaxBets - 1)) :
                   i < Len(playerBets[p]) /\ playerBets[p][i + 1].claimed}

----------------------------------------------------------------------------
(* C1: global solvency.  In every reachable state of the multi-roll       *)
(* contract the pool's token balance is at least the reserved liability,   *)
(* the sum of the worst-case payouts of all bets not yet claimed.          *)
C1_GlobalSolvency == balanceOf[GAME] >= reservedLiability(St)

(* C2: a winning reveal is always payable.  For every open bet whose       *)
(* commit block's hash is available, a reveal with the committed secret    *)
(* and salt that has at least one winning roll succeeds: the contract      *)
(* never fails it for lack of pool funds, also after executeWithdraw.      *)
C2_WinningRevealPayable ==
    \A p \in Players, i \in 0..(MaxBets - 1), secret \in Secrets, salt \in Salts :
        (/\ <<p, i>> \in OpenBets
         /\ blockNumber > playerBets[p][i + 1].commitBlock
         /\ blockhash(playerBets[p][i + 1].commitBlock) # 0
         /\ computeHash(secret, salt) = playerBets[p][i + 1].dataHash
         /\ rollWins(secret, blockhash(playerBets[p][i + 1].commitBlock),
                     playerBets[p][i + 1].multiplier,
                     playerBets[p][i + 1].numRolls, 0) > 0)
        => reveal(St, p, i, secret, salt).err = "ok"

C4_CounterExact == totalOutstandingPotentialPayouts = resReservedLiability(St)

(* C4 witness: a commit has added to the counter and a reveal or forfeit   *)
(* has subtracted from it, while another bet is still reserved.            *)
C4_Witness ==
    /\ ClaimedBets # {}
    /\ OpenBets # {}
    /\ totalOutstandingPotentialPayouts > 0


itemsBefore(p, items) ==
    LET k == CHOOSE n \in DOMAIN items :
                 /\ <<p, items[n][1]>> \in ClaimedBets
                 /\ \A j \in 1..(n - 1) : <<p, items[j][1]>> \notin ClaimedBets
    IN  SubSeq(items, 1, k - 1)

(* the sum of the payouts of a set of bets *)
RECURSIVE sumWorstCase(_)
sumWorstCase(B) ==
    IF B = {} THEN 0
    ELSE LET b == CHOOSE x \in B : TRUE
         IN  resWorstCasePayout(playerBets[b[1]][b[2] + 1]) + sumWorstCase(B \ {b})

C5_ClaimedRejected ==
    /\ \A b \in ClaimedBets, secret \in Secrets, salt \in Salts :
           resReveal(St, b[1], b[2], secret, salt) = Revert(St, "Already claimed")
    /\ \A p \in Players, items \in BatchSeqs(BatchItems) :
           (\E k \in DOMAIN items : <<p, items[k][1]>> \in ClaimedBets)
           => LET r == resBatchRevealItems(St, p, items)
              IN  /\ r.err # "ok"
                  /\ r.st = St
                  /\ r.err # "Already claimed"
                     => resBatchRevealItems(St, p, itemsBefore(p, items)).err # "ok"

C5_OnePayoutPerBet ==
    /\ \A b \in ClaimedBets :
           /\ Len(playerBets'[b[1]]) > b[2]
           /\ playerBets'[b[1]][b[2] + 1].claimed
    /\ totalPaidOut' # totalPaidOut
       => totalPaidOut' - totalPaidOut
             <= sumWorstCase({b \in OpenBets : playerBets'[b[1]][b[2] + 1].claimed})

C6_ConcurrentAdmission ==
    \A p \in Players, q \in Players, h1 \in HashInputs, h2 \in HashInputs \ {0},
       a1 \in BetInputs, a2 \in BetInputs, m1 \in MultInputs, m2 \in MultInputs :
        LET r1 == resClick(St, p, h1, a1, m1)
        IN  (/\ resIsValidBet(a2) /\ isValidMultiplier(m2)
             /\ resIsValidBet(a1) /\ isValidMultiplier(m1) /\ h1 # 0
             /\ r1.err = "ok"
             /\ r1.st.balanceOf[q] >= a2
             /\ singlePayout(a1, m1) + singlePayout(a2, m2)
                   > r1.st.balanceOf[GAME] + netBetOf(a2))
            => resClick(r1.st, q, h2, a2, m2)
                   = Revert(r1.st, "House underfunded for this bet")

(* C6 witness: a first bet is reserved and a second commit that the        *)
(* balance alone would cover is rejected with the capacity error.          *)
C6_Witness ==
    \E b \in OpenBets, q \in Players, h \in HashInputs, a \in BetInputs, m \in MultInputs :
        /\ ~paused
        /\ balanceOf[q] >= a
        /\ balanceOf[GAME] + netBetOf(a) >= singlePayout(a, m)
        /\ resWorstCasePayout(playerBets[b[1]][b[2] + 1]) + singlePayout(a, m)
              > balanceOf[GAME] + netBetOf(a)
        /\ resClick(St, q, h, a, m).err = "House underfunded for this bet"

(* C7: reservation-aware admission.  A commit of the multi-roll contract   *)
(* succeeds only if the pool balance after the stake transfer and burn,    *)
(* minus the liability reserved before the commit, covers the new bet's    *)
(* worst-case payout.                                                      *)
C7_ReservationAwareAdmission ==
    \A p \in Players, h \in HashInputs, a \in BetInputs, m \in MultInputs, n \in RollInputs :
        /\ click(St, p, h, a, m, n).err = "ok"
           => click(St, p, h, a, m, n).st.balanceOf[GAME] - reservedLiability(St)
                 >= maxPayout(a, m, n)
        /\ clickLegacy(St, p, h, a, m).err = "ok"
           => clickLegacy(St, p, h, a, m).st.balanceOf[GAME] - reservedLiability(St)
                 >= maxPayout(a, m, 1)

(* C8: fixed-fraction cap.  A commit succeeds only if its worst-case       *)
(* payout is at most a fifth of the pool balance after the stake transfer; *)
(* a commit that passes the earlier checks and exceeds that fifth fails    *)
(* with the capacity error, whatever is reserved.                          *)
C8_FixedFractionCap ==
    \A p \in Players, h \in HashInputs, a \in BetInputs, m \in MultInputs, n \in RollInputs :
        /\ click(St, p, h, a, m, n).err = "ok"
           => maxPayout(a, m, n) <= (balanceOf[GAME] + a * n) \div MAX_PAYOUT_DIVISOR
        /\ (/\ ~paused /\ h # 0 /\ isValidBet(a) /\ isValidMultiplier(m)
            /\ n >= 1 /\ n <= MAX_ROLLS
            /\ maxPayout(a, m, n) > (balanceOf[GAME] + a * n) \div MAX_PAYOUT_DIVISOR)
           => click(St, p, h, a, m, n).err = "Payout exceeds max (1/5 of house)"
        /\ clickLegacy(St, p, h, a, m).err = "ok"
           => maxPayout(a, m, 1) <= (balanceOf[GAME] + a) \div MAX_PAYOUT_DIVISOR
        /\ (/\ ~paused /\ h # 0 /\ isValidBet(a) /\ isValidMultiplier(m)
            /\ maxPayout(a, m, 1) > (balanceOf[GAME] + a) \div MAX_PAYOUT_DIVISOR)
           => clickLegacy(St, p, h, a, m).err = "Payout exceeds max (1/5 of house)"

(* C8 witness: bets have been admitted, the pool holds tokens, and a       *)
(* valid commit within the whole balance is refused by the cap.            *)
C8_Witness ==
    /\ OpenBets # {}
    /\ balanceOf[GAME] > 0
    /\ \E p \in Players, h \in HashInputs, a \in BetInputs, m \in MultInputs, n \in RollInputs :
           /\ maxPayout(a, m, n) <= balanceOf[GAME]
           /\ click(St, p, h, a, m, n).err = "Payout exceeds max (1/5 of house)"

(* C9: token conservation.  The sum of the token balances of the pool,     *)
(* the players, the burn address and the withdrawal destination is the     *)
(* same in every reachable state.                                          *)
C9_TokenConservation == sumOver(Addresses, balanceOf) = sumOver(Addresses, InitialFunds)

(* C9 witness: stakes were taken and burned, a win was paid and a          *)
(* withdrawal was executed.                                                *)
C9_Witness ==
    /\ totalBetAmount > 0
    /\ totalPaidOut > 0
    /\ balanceOf[BURN_ADDRESS] > 0
    /\ balanceOf[Treasury] > 0
    /\ \E p \in Players : balanceOf[p] > InitialFunds[p]

(* C10: a rejected commit is never partially applied.  Whatever makes a    *)
(* click fail, the state after the call is the state before it: balances,  *)
(* bet lists and counters.                                                 *)
C10_RejectedCommitAtomic ==
    \A p \in Players, h \in HashInputs, a \in BetInputs, m \in MultInputs, n \in RollInputs :
        /\ click(St, p, h, a, m, n).err # "ok" => click(St, p, h, a, m, n).st = St
        /\ clickLegacy(St, p, h, a, m).err # "ok" => clickLegacy(St, p, h, a, m).st = St

(* the errors click gives on the inputs tried in the current state *)
ClickErrors ==
    {click(St, p, h, a, m, n).err :
        p \in Players, h \in HashInputs, a \in BetInputs, m \in MultInputs, n \in RollInputs}

(* C10 witness: after a commit, with the game running, a click is rejected *)
(* for each input check, by the cap and by the token transfer.             *)
C10_Witness ==
    /\ OpenBets # {}
    /\ {"Empty hash", "Invalid bet amount", "Invalid multiplier", "1-20 rolls",
        "Payout exceeds max (1/5 of house)",
        "ERC20: transfer amount exceeds balance"} \subseteq ClickErrors


(* C11: reveal window.  For an open bet committed at block c, a reveal is   *)
(* rejected as too early at every block up to c, is never rejected as      *)
(* expired at the blocks c+1 .. c+REVEAL_WINDOW, and is rejected as        *)
(* expired at block c+REVEAL_WINDOW+1 and at every later block.            *)
C11_RevealWindow ==
    \A b \in OpenBets, secret \in Secrets, salt \in Salts :
        LET c == playerBets[b[1]][b[2] + 1].commitBlock
            r == reveal(St, b[1], b[2], secret, salt)
        IN  /\ blockNumber <= c => r = Revert(St, "Wait one block")
            /\ (blockNumber > c /\ blockNumber <= c + REVEAL_WINDOW)
               => r.err \notin {"Wait one block", "Bet expired (>256 blocks)"}
            /\ blockNumber > c + REVEAL_WINDOW
               => r = Revert(St, "Bet expired (>256 blocks)")

(* C11 witness: at the last block of the window, c+REVEAL_WINDOW, a reveal *)
(* of an open bet succeeds.                                                *)
C11_Witness ==
    \E b \in OpenBets, secret \in Secrets, salt \in Salts :
        /\ blockNumber = playerBets[b[1]][b[2] + 1].commitBlock + REVEAL_WINDOW
        /\ reveal(St, b[1], b[2], secret, salt).err = "ok"


----------------------------------------------------------------------------
(* C12: the entropy that settles a bet is not fixed when the commit is      *)
(* accepted. While the chain is still at a bet's commit block the hash of   *)
(* that block is unset, no reveal of the bet succeeds, and for every roll   *)
(* of the bet the chain can still move on to a block hash under which the   *)
(* roll wins and to one under which it loses.                               *)
C12_CommitTimeUnpredictable ==
    \A b \in OpenBets :
        LET bet == playerBets[b[1]][b[2] + 1]
        IN  blockNumber = bet.commitBlock =>
              /\ commitBlockHashOf(bet.commitBlock) = 0
              /\ \A secret \in Secrets, salt \in Salts :
                    /\ reveal(St, b[1], b[2], secret, salt).err # "ok"
                    /\ computeHash(secret, salt) = bet.dataHash =>
                         \A i \in 0..(bet.numRolls - 1) :
                            /\ ENABLED (Roll /\ isWinningRoll(secret,
                                   commitBlockHashOf(bet.commitBlock)', bet.multiplier, i))
                            /\ ENABLED (Roll /\ ~isWinningRoll(secret,
                                   commitBlockHashOf(bet.commitBlock)', bet.multiplier, i))

C12_Witness ==
    \E b \in OpenBets :
        LET bet == playerBets[b[1]][b[2] + 1]
        IN  /\ blockNumber = bet.commitBlock
            /\ bet.numRolls = 2
            /\ bet.multiplier = 8
            /\ \E secret \in Secrets, salt \in Salts : computeHash(secret, salt) = bet.dataHash

----------------------------------------------------------------------------
(* C13: a reveal succeeds only when the hash of the presented secret and    *)
(* salt equals the bet's stored commitment. For an unclaimed bet inside its *)
(* reveal window, a reveal (single or as a batch of one) presenting any     *)
(* other secret or salt fails with "Hash mismatch", whether or not the      *)
(* presented secret would win, and leaves the whole state as it was: the    *)
(* bet unclaimed and every balance unchanged.                               *)
C13_CommitmentBinding ==
    \A p \in Players, i \in 0..(MaxBets - 1), secret \in Secrets, salt \in PresentedSalts :
        LET r == reveal(St, p, i, secret, salt)
            rb == batchReveal(St, p, <<i>>, <<secret>>, <<salt>>)
        IN  /\ (r.err = "ok" \/ rb.err = "ok")
               => /\ i < Len(playerBets[p])
                  /\ computeHash(secret, salt) = playerBets[p][i + 1].dataHash
            /\ ( /\ <<p, i>> \in OpenBets
                 /\ blockNumber > playerBets[p][i + 1].commitBlock
                 /\ blockNumber <= playerBets[p][i + 1].commitBlock + REVEAL_WINDOW
                 /\ computeHash(secret, salt) # playerBets[p][i + 1].dataHash )
               => /\ r = Revert(St, "Hash mismatch")
                  /\ rb = Revert(St, "Hash mismatch")

C13_Witness ==
    \E b \in OpenBets, secret \in Secrets, salt \in PresentedSalts :
        LET bet == playerBets[b[1]][b[2] + 1]
        IN  /\ computeHash(secret, salt) # bet.dataHash
            /\ rollWins(secret, commitBlockHashOf(bet.commitBlock), bet.multiplier,
                        bet.numRolls, 0) > 0
            /\ reveal(St, b[1], b[2], secret, salt) = Revert(St, "Hash mismatch")

----------------------------------------------------------------------------
(* C14: the pure check functions agree with settlement. For every unclaimed *)
(* bet inside its reveal window and the secret it was committed with,       *)
(* checkWin reports a win exactly when reveal counts roll i as a win, for   *)
(* every roll i of the bet, and countWins is the number of wins reveal      *)
(* counts and adds to totalWins; it is zero exactly when reveal fails with  *)
(* "No winning rolls".                                                      *)
C14_PureChecksAgree ==
    \A b \in OpenBets, secret \in Secrets, salt \in Salts :
        LET bet == playerBets[b[1]][b[2] + 1]
            h == commitBlockHashOf(bet.commitBlock)
            r == revealInternal(St, b[1], b[2], secret, salt)
        IN  ( /\ blockNumber > bet.commitBlock
              /\ blockNumber <= bet.commitBlock + REVEAL_WINDOW
              /\ computeHash(secret, salt) = bet.dataHash )
            => /\ \A i \in 0..(bet.numRolls - 1) :
                     checkWin(secret, h, bet.multiplier)
                        <=> isWinningRoll(secret, h, bet.multiplier, i)
               /\ countWins(secret, h, bet.multiplier, bet.numRolls)
                     = rollWins(secret, h, bet.multiplier, bet.numRolls, 0)
               /\ (countWins(secret, h, bet.multiplier, bet.numRolls) = 0)
                     <=> (r.err = "No winning rolls")
               /\ r.err = "ok"
                     => r.st.totalWins
                          = totalWins + countWins(secret, h, bet.multiplier, bet.numRolls)

----------------------------------------------------------------------------
----------------------------------------------------------------------------
(* C16: a successful reveal has w >= 1 winning rolls and, with              *)
(* gross = stake * multiplier * 98 / 100 * w, moves exactly floor(gross/100) *)
(* from the pool to the burn address and exactly gross - floor(gross/100)   *)
(* from the pool to the bet's owner, the amount getMultiRollPayout          *)
(* previews; the amounts follow the wins counted, not the number of rolls   *)
(* the bet was placed with.                                                 *)
C16_RealizedPayout ==
    \A b \in OpenBets, secret \in Secrets, salt \in Salts :
        LET bet == playerBets[b[1]][b[2] + 1]
            r == reveal(St, b[1], b[2], secret, salt)
            w == Cardinality({i \in 0..(bet.numRolls - 1) :
                     isWinningRoll(secret, commitBlockHashOf(bet.commitBlock),
                                   bet.multiplier, i)})
            gross == ((bet.betAmount * bet.multiplier * 98) \div 100) * w
            burned == gross \div 100
        IN  r.err = "ok"
            => /\ w >= 1
               /\ r.st.balanceOf[BURN_ADDRESS] = balanceOf[BURN_ADDRESS] + burned
               /\ r.st.balanceOf[b[1]] = balanceOf[b[1]] + (gross - burned)
               /\ r.st.balanceOf[GAME] = balanceOf[GAME] - gross
               /\ \A a \in Addresses \ {BURN_ADDRESS, b[1], GAME} :
                     r.st.balanceOf[a] = balanceOf[a]
               /\ gross - burned = getMultiRollPayout(bet.betAmount, bet.multiplier, w)
               /\ r.st.totalPaidOut = totalPaidOut + gross
               /\ r.st.totalBurned = totalBurned + burned

(* a bet of two rolls settled with one winning roll *)
C16_Witness ==
    \E b \in OpenBets, secret \in Secrets, salt \in Salts :
        LET bet == playerBets[b[1]][b[2] + 1]
            r == reveal(St, b[1], b[2], secret, salt)
        IN  /\ r.err = "ok"
            /\ bet.numRolls = 2
            /\ r.st.totalWins = totalWins + 1

----------------------------------------------------------------------------
(* C17: for every stake tier, every multiplier in {2, 4, ..., 1024} and     *)
(* every number of rolls in 1..20, the worst-case payout click computes     *)
(* equals stake * multiplier * (100 - 2) * rolls / 100 with all the         *)
(* multiplications carried out before the division, and that division       *)
(* leaves no remainder; where the amounts are in the range of the           *)
(* admission check of the model, it is the value that check uses. Stake     *)
(* 10,000 with multiplier 1024 and one roll gives 10,035,200.               *)
C17_WorstCasePayoutFormula ==
    payoutCall.result # NoResult
    => LET stake == payoutCall.betAmount
           m == payoutCall.multiplier
           n == payoutCall.numRolls
           product == wideMul(wideMul(wideMul(toWide(stake), m), 98), n)
       IN  /\ wideRem(product, 100) = 0
           /\ payoutCall.result = wideDiv(product, 100)
           /\ stake * m <= 1000000
                => /\ payoutCall.result = toWide((stake * m * n * 98) \div 100)
                   /\ payoutCall.result = toWide(maxPayout(stake, m, n))
           /\ (stake = 10000 /\ m = 1024 /\ n = 1)
                => payoutCall.result = toWide(10035200)

C17_Witness ==
    /\ payoutCall.betAmount = 1000000
    /\ payoutCall.multiplier = 1024
    /\ payoutCall.numRolls = 20
    /\ payoutCall.result = <<20070, 400000>>

----------------------------------------------------------------------------
(* C18: forfeit(index) by the owner of an unclaimed bet at any block after  *)
(* the bet's commit block, also after the reveal window has closed and      *)
(* while the game is paused, succeeds, marks the bet claimed, lowers        *)
(* totalOutstandingPotentialPayouts by the bet's payout and changes nothing *)
(* else, no balance in particular. At the commit block (or before it), on a *)
(* claimed bet and on an index that holds no bet, it fails and changes      *)
(* nothing.                                                                 *)
C18_Forfeit ==
    \A p \in Players, i \in 0..MaxBets :
        LET r == resForfeit(St, p, i)
        IN  IF ~(i < Len(playerBets[p])) THEN r.err # "ok" /\ r.st = St
            ELSE LET bet == playerBets[p][i + 1]
                 IN  IF bet.claimed THEN r = Revert(St, "Already claimed")
                     ELSE IF blockNumber <= bet.commitBlock
                         THEN r = Revert(St, "Wait one block")
                     ELSE /\ r.err = "ok"
                          /\ r.st.playerBets[p][i + 1].claimed = TRUE
                          /\ r.st.totalOutstandingPotentialPayouts
                               = totalOutstandingPotentialPayouts
                                   - (bet.betAmount * bet.multiplier * 98) \div 100
                          /\ r.st.balanceOf = balanceOf
                          /\ r.st = [St EXCEPT
                                 !.playerBets[p][i + 1].claimed = TRUE,
                                 !.totalOutstandingPotentialPayouts =
                                     r.st.totalOutstandingPotentialPayouts]

(* a forfeit that succeeds after the window has closed, in a paused game *)
C18_Witness ==
    \E b \in OpenBets :
        /\ paused
        /\ blockNumber > playerBets[b[1]][b[2] + 1].commitBlock + REVEAL_WINDOW
        /\ resForfeit(St, b[1], b[2]).err = "ok"

----------------------------------------------------------------------------
(* C19: the pause flag gates click only. While the game is paused every     *)
(* click fails with "Game paused" and changes nothing, and every reveal,    *)
(* batchReveal and forfeit ends as it would in the same state with the flag *)
(* clear: with the same error or success and the same resulting state, the  *)
(* flag apart. This holds in every state the withdrawal procedure leaves    *)
(* the game in: request pending, delay elapsed, withdrawal executed.        *)
C19_PauseGatesClickOnly ==
    paused
    => LET clear == [St EXCEPT !.paused = FALSE]
           same(r, rc) == r.err = rc.err /\ r.st = [rc.st EXCEPT !.paused = TRUE]
       IN  /\ \A p \in Players, h \in HashInputs, a \in BetInputs, m \in MultInputs :
                  resClick(St, p, h, a, m) = Revert(St, "Game paused")
           /\ \A p \in Players, i \in 0..MaxBets, secret \in Secrets, salt \in Salts :
                  same(resReveal(St, p, i, secret, salt),
                       resReveal(clear, p, i, secret, salt))
           /\ \A p \in Players, items \in BatchSeqs(BatchItems) :
                  same(resBatchRevealItems(St, p, items),
                       resBatchRevealItems(clear, p, items))
           /\ \A p \in Players, i \in 0..MaxBets :
                  same(resForfeit(St, p, i), resForfeit(clear, p, i))

(* paused after an executed withdrawal, with a winning reveal and a forfeit *)
(* that both succeed                                                        *)
C19_Witness ==
    /\ paused
    /\ withdrawRequestedAt = 0
    /\ balanceOf[Treasury] > 0
    /\ \E b \in OpenBets, secret \in Secrets, salt \in Salts :
          /\ resReveal(St, b[1], b[2], secret, salt).err = "ok"
          /\ resForfeit(St, b[1], b[2]).err = "ok"

----------------------------------------------------------------------------
C20_RequestState ==
    \A c \in Callers, to \in Addresses \cup {ZERO} :
        LET r == requestWithdraw(St, c, to)
        IN  /\ (c = owner /\ to # ZERO /\ withdrawRequestedAt = 0)
               => /\ r.err = "ok"
                  /\ r.st = [St EXCEPT !.paused = TRUE,
                                       !.withdrawRequestedAt = timestamp,
                                       !.withdrawTo = to]
                  /\ r.st.withdrawRequestedAt # 0
            /\ withdrawRequestedAt # 0
               => /\ r.err # "ok"
                  /\ r.st = St
                  /\ (c = owner /\ to # ZERO) => r.err = "Withdrawal already pending"

C20_PendingKept ==
    (withdrawRequestedAt # 0 /\ withdrawRequestedAt' # 0)
    => /\ withdrawRequestedAt' = withdrawRequestedAt
       /\ withdrawTo' = withdrawTo

(* C20: requestWithdraw(to) by the owner, to a destination other than the   *)
(* zero address and with no request pending, succeeds, sets the pause,      *)
(* records the destination and the current time as the request time and     *)
(* changes nothing else. While a request is pending every requestWithdraw,  *)
(* whatever its destination, fails and changes nothing (with "Withdrawal    *)
(* already pending" for the owner and a destination that is not zero), and  *)
(* no step replaces the recorded time or destination of a pending request   *)
(* by those of another: they only go back to zero, by cancelWithdraw or     *)
(* executeWithdraw.                                                         *)
C20_RequestWithdraw == [](C20_RequestState) /\ [][C20_PendingKept]_vars

(* a request is pending since an earlier time and the owner asks again *)
C20_Witness ==
    /\ withdrawRequestedAt # 0
    /\ timestamp > withdrawRequestedAt
    /\ withdrawTo = Treasury
    /\ paused
    /\ requestWithdraw(St, owner, "p1") = Revert(St, "Withdrawal already pending")

----------------------------------------------------------------------------
(* C21: executeWithdraw succeeds only for the owner, with a request pending *)
(* and at a time not before the request time plus WITHDRAW_DELAY. With no   *)
(* request pending ("No withdrawal requested") or before the delay has      *)
(* elapsed ("Delay not met") it fails and leaves the whole state, balances  *)
(* included, as it was. A successful call clears the request time and the   *)
(* destination, so a second executeWithdraw right after it fails: one       *)
(* request yields at most one transfer.                                     *)
C21_ExecuteWithdraw ==
    \A c \in Callers :
        LET r == executeWithdraw(St, c)
        IN  /\ r.err = "ok"
               => /\ c = owner
                  /\ withdrawRequestedAt # 0
                  /\ timestamp >= withdrawRequestedAt + WITHDRAW_DELAY
                  /\ r.st.withdrawRequestedAt = 0
                  /\ r.st.withdrawTo = ZERO
                  /\ executeWithdraw(r.st, c) = Revert(r.st, "No withdrawal requested")
            /\ withdrawRequestedAt = 0
               => /\ r.err # "ok"
                  /\ r.st = St
                  /\ c = owner => r.err = "No withdrawal requested"
            /\ (withdrawRequestedAt # 0 /\ timestamp < withdrawRequestedAt + WITHDRAW_DELAY)
               => /\ r.err # "ok"
                  /\ r.st = St
                  /\ c = owner => r.err = "Delay not met"

(* the delay has elapsed to the second and the owner's call goes through *)
C21_Witness ==
    /\ withdrawRequestedAt # 0
    /\ timestamp = withdrawRequestedAt + WITHDRAW_DELAY
    /\ balanceOf[GAME] > 0
    /\ executeWithdraw(St, owner).err = "ok"

----------------------------------------------------------------------------
C22_StaysPaused ==
    /\ withdrawRequestedAt # 0 => paused
    /\ \A c \in Callers :
          LET r == executeWithdraw(St, c)
          IN  r.err = "ok"
              => /\ r.st.paused
                 /\ \A p \in Players, h \in HashInputs, a \in BetInputs,
                       m \in MultInputs, n \in RollInputs :
                       /\ click(r.st, p, h, a, m, n) = Revert(r.st, "Game paused")
                       /\ clickLegacy(r.st, p, h, a, m) = Revert(r.st, "Game paused")
    /\ paused
       => \A p \in Players, h \in HashInputs, a \in BetInputs,
             m \in MultInputs, n \in RollInputs :
             /\ click(St, p, h, a, m, n) = Revert(St, "Game paused")
             /\ clickLegacy(St, p, h, a, m) = Revert(St, "Game paused")

C22_OnlyOwnerUnpauses ==
    (paused /\ withdrawRequestedAt = 0 /\ ~paused')
    => /\ unpause(St, owner).err = "ok"
       /\ St' = unpause(St, owner).st

(* C22: a successful executeWithdraw leaves the game paused: it never       *)
(* changes the pause flag, which a pending request has set, and in the      *)
(* state it leaves every click fails with "Game paused". Every click keeps  *)
(* failing so while the flag is set, and once the withdrawal is executed    *)
(* the only steps that clear the flag are those with the effect of the      *)
(* owner's unpause.                                                         *)
C22_ExecuteKeepsPause == [](C22_StaysPaused) /\ [][C22_OnlyOwnerUnpauses]_vars

(* after an executed withdrawal the pool is funded again and a click that   *)
(* would be admitted with the flag clear is refused                         *)
C22_Witness ==
    /\ paused
    /\ withdrawRequestedAt = 0
    /\ \E p \in Players, h \in HashInputs, a \in BetInputs, m \in MultInputs, n \in RollInputs :
          /\ click([St EXCEPT !.paused = FALSE], p, h, a, m, n).err = "ok"
          /\ click(St, p, h, a, m, n).err = "Game paused"

----------------------------------------------------------------------------
(* C23: cancelWithdraw by the owner succeeds, sets the request time and the *)
(* destination back to zero, lifts the pause and changes nothing else, no   *)
(* balance in particular; by anyone else it fails with "Not owner" and      *)
(* changes nothing. In the state it leaves no click fails with "Game        *)
(* paused", and a requestWithdraw records the current time, so an           *)
(* executeWithdraw at that time fails with "Delay not met" even when the    *)
(* delay of the cancelled request had elapsed.                              *)
C23_CancelWithdraw ==
    \A c \in Callers :
        LET r == cancelWithdraw(St, c)
        IN  IF c # owner THEN r = Revert(St, "Not owner")
            ELSE /\ r.err = "ok"
                 /\ r.st = [St EXCEPT !.withdrawRequestedAt = 0, !.withdrawTo = ZERO,
                                      !.paused = FALSE]
                 /\ r.st.balanceOf = balanceOf
                 /\ \A p \in Players, h \in HashInputs, a \in BetInputs,
                       m \in MultInputs, n \in RollInputs :
                       /\ click(r.st, p, h, a, m, n).err # "Game paused"
                       /\ clickLegacy(r.st, p, h, a, m).err # "Game paused"
                 /\ \A to \in Addresses :
                       LET r2 == requestWithdraw(r.st, c, to)
                       IN  /\ r2.err = "ok"
                           /\ r2.st.withdrawRequestedAt = timestamp
                           /\ r2.st.withdrawTo = to
                           /\ executeWithdraw(r2.st, c) = Revert(r2.st, "Delay not met")

(* a request whose delay has elapsed is cancelled, and a click is admitted *)
(* right after                                                             *)
C23_Witness ==
    /\ withdrawRequestedAt # 0
    /\ timestamp >= withdrawRequestedAt + WITHDRAW_DELAY
    /\ paused
    /\ LET r == cancelWithdraw(St, owner)
       IN  /\ r.err = "ok"
           /\ \E p \in Players, h \in HashInputs, a \in BetInputs,
                 m \in MultInputs, n \in RollInputs :
                 click(r.st, p, h, a, m, n).err = "ok"

----------------------------------------------------------------------------
(* every owner-only entry point, called by sender in state s, fails with *)
(* "Not owner" and changes nothing                                       *)
OwnerOnlyCallsFail(s, sender) ==
    /\ \A to \in WithdrawDests : requestWithdraw(s, sender, to) = Revert(s, "Not owner")
    /\ cancelWithdraw(s, sender) = Revert(s, "Not owner")
    /\ executeWithdraw(s, sender) = Revert(s, "Not owner")
    /\ unpause(s, sender) = Revert(s, "Not owner")
    /\ \A n \in OwnerInputs : proposeOwner(s, sender, n) = Revert(s, "Not owner")
    /\ renounceOwnership(s, sender) = Revert(s, "Not owner")

(* C24: two-step ownership. proposeOwner succeeds only for the owner and    *)
(* then only records the pending owner: the owner and everything else stay  *)
(* as they were. acceptOwnership succeeds exactly when its caller is the    *)
(* pending owner; it makes the caller owner and clears the pending owner,   *)
(* and in the state it leaves every owner-only call by the previous owner   *)
(* fails with "Not owner"; by any other caller it fails with "Not pending   *)
(* owner" and changes nothing. In every state every owner-only call by a    *)
(* caller other than the owner fails.                                       *)
C24_TwoStepOwnership ==
    \A c \in Callers :
        /\ \A n \in OwnerInputs \cup Callers :
              LET rp == proposeOwner(St, c, n)
              IN  /\ rp.err = "ok" <=> (c = owner /\ n # ZERO)
                  /\ rp.err = "ok" => rp.st = [St EXCEPT !.pendingOwner = n]
                  /\ rp.st.owner = owner
                  /\ rp.err # "ok" => rp.st = St
        /\ LET ra == acceptOwnership(St, c)
           IN  IF c = pendingOwner
                   THEN /\ ra.err = "ok"
                        /\ ra.st = [St EXCEPT !.owner = c, !.pendingOwner = ZERO]
                        /\ owner # c => OwnerOnlyCallsFail(ra.st, owner)
                   ELSE ra = Revert(St, "Not pending owner")
        /\ c # owner => OwnerOnlyCallsFail(St, c)

(* the proposed owner has accepted; the previous owner is locked out *)
C24_Witness ==
    /\ owner = "p2"
    /\ pendingOwner = ZERO
    /\ OwnerOnlyCallsFail(St, GameOwner)
    /\ requestWithdraw(St, "p2", Treasury).err = "ok"

----------------------------------------------------------------------------
C25_Renounce ==
    \A c \in Callers :
        LET r == renounceOwnership(St, c)
        IN  IF c = owner
                THEN /\ r.err = "ok"
                     /\ r.st = [St EXCEPT !.owner = ZERO, !.pendingOwner = ZERO]
                ELSE r = Revert(St, "Not owner")

C25_NoOwner ==
    owner = ZERO
    => /\ pendingOwner = ZERO
       /\ \A c \in Callers :
             /\ OwnerOnlyCallsFail(St, c)
             /\ acceptOwnership(St, c) = Revert(St, "Not pending owner")

C25_StaysRenounced == owner = ZERO => owner' = ZERO

(* C25: renouncement is irrevocable. renounceOwnership by the owner sets    *)
(* the owner to the zero address and clears a pending owner proposed        *)
(* before. Once the owner is the zero address it is so in every later       *)
(* state: no step makes any address owner again, acceptOwnership fails for  *)
(* every caller and every owner-only call fails with "Not owner".           *)
C25_RenounceIrrevocable ==
    [](C25_Renounce) /\ [](C25_NoOwner) /\ [][C25_StaysRenounced]_vars

(* ownership is renounced while a withdrawal request is pending; its delay *)
(* has elapsed and nobody can execute it                                   *)
C25_Witness ==
    /\ owner = ZERO
    /\ withdrawRequestedAt # 0
    /\ timestamp >= withdrawRequestedAt + WITHDRAW_DELAY
    /\ \A c \in Callers : executeWithdraw(St, c) = Revert(St, "Not owner")

----------------------------------------------------------------------------
(* the items a batch is tried with: every bet index and one past them, the *)
(* committed and another secret                                            *)
C26_Items == (0..MaxBets) \X Secrets \X Salts

(* a batch of one or two items ends as the reveals of its items in turn *)
C26_EndsAsReveals ==
    \A p \in Players, x \in C26_Items :
        LET r1 == reveal(St, p, x[1], x[2], x[3])
        IN  /\ batchRevealItems(St, p, <<x>>) = r1
            /\ r1.err # "ok" => r1.st = St
            /\ \A y \in C26_Items :
                  LET r == batchRevealItems(St, p, <<x, y>>)
                      r2 == reveal(r1.st, p, y[1], y[2], y[3])
                  IN  /\ r.err = (IF r1.err # "ok" THEN r1.err ELSE r2.err)
                      /\ r.st = (IF r.err = "ok" THEN r2.st ELSE St)
                      /\ (r1.err = "ok" /\ y[1] = x[1]) => r.err = "Already claimed"
                      /\ r.err = "ok"
                         => /\ r.st.playerBets[p][x[1] + 1].claimed
                            /\ r.st.playerBets[p][y[1] + 1].claimed

(* C26: batchReveal is all-or-nothing. A batch of one item ends as reveal   *)
(* of that item does. A batch of two items ends as the reveal of the first  *)
(* followed, in the state that leaves, by the reveal of the second: it      *)
(* succeeds only when both do, and when either fails (unknown index,        *)
(* already claimed, too early, expired, hash mismatch, no winning roll, or  *)
(* the second item naming the index of the first) the call fails with that  *)
(* item's error and leaves the whole state as it was: no bet claimed, no    *)
(* counter and no balance changed.                                          *)
C26_BatchAllOrNothing == [](C26_EndsAsReveals)

(* the first item of a batch would be paid on its own, the second has no *)
(* winning roll, and the batch fails                                     *)
C26_Witness ==
    \E p \in Players, x \in C26_Items, y \in C26_Items :
        /\ reveal(St, p, x[1], x[2], x[3]).err = "ok"
        /\ reveal(St, p, y[1], y[2], y[3]).err = "No winning rolls"
        /\ batchRevealItems(St, p, <<x, y>>) = Revert(St, "No winning rolls")

----------------------------------------------------------------------------
(* C27: the claimed flag of a bet only goes from false to true. In every    *)
(* step, of any caller, a bet that is claimed is still stored at its index  *)
(* and still claimed afterwards.                                            *)
C27_ClaimedIsFinal ==
    [][\A p \in Players : \A i \in 1..Len(playerBets[p]) :
          playerBets[p][i].claimed
          => /\ Len(playerBets'[p]) >= i
             /\ playerBets'[p][i].claimed]_vars

(* a bet claimed and paid by a reveal, long out of its window, next to a *)
(* bet still open                                                       *)
C27_Witness ==
    /\ \E b \in ClaimedBets :
          blockNumber > playerBets[b[1]][b[2] + 1].commitBlock + REVEAL_WINDOW
    /\ totalPaidOut > 0
    /\ OpenBets # {}

----------------------------------------------------------------------------
C28_StoredBets ==
    \A p \in Players : \A i \in 1..Len(playerBets[p]) :
        LET b == playerBets[p][i]
        IN  /\ b.dataHash # 0
            /\ b.betAmount \in {2000, 10000, 50000, 100000, 500000, 1000000}
            /\ b.multiplier \in {2, 4, 8, 16, 32, 64, 128, 256, 512, 1024}
            /\ b.numRolls \in 1..20

C28_Validation ==
    \A p \in Players, h \in HashInputs, a \in BetInputs, m \in MultInputs, n \in RollInputs :
        LET r == click(St, p, h, a, m, n)
            rl == clickLegacy(St, p, h, a, m)
            badHash == h = 0
            badBet == a \notin {2000, 10000, 50000, 100000, 500000, 1000000}
            badMult == m \notin {2, 4, 8, 16, 32, 64, 128, 256, 512, 1024}
            badRolls == n \notin 1..20
            matching == IF paused THEN "Game paused"
                        ELSE IF badHash THEN "Empty hash"
                        ELSE IF badBet THEN "Invalid bet amount"
                        ELSE IF badMult THEN "Invalid multiplier"
                        ELSE "1-20 rolls"
        IN  /\ (badHash \/ badBet \/ badMult \/ badRolls) => r = Revert(St, matching)
            /\ (badHash \/ badBet \/ badMult) => rl = Revert(St, matching)

(* C28: every stored bet, in every reachable state, has a commitment hash   *)
(* other than zero, a stake among the six tiers, a multiplier among         *)
(* 2, 4, ..., 1024 and 1 to 20 rolls. A click with a zero hash, a stake     *)
(* outside the tiers, a multiplier outside the list or a number of rolls    *)
(* outside 1..20 fails and changes nothing, with the error of the first of  *)
(* these checks it does not pass ("Empty hash", "Invalid bet amount",       *)
(* "Invalid multiplier", "1-20 rolls"), or "Game paused" in a paused game.  *)
C28_BetDomains == C28_StoredBets /\ C28_Validation

(* bets are stored and a click with multiplier 3 and 21 rolls is refused *)
(* for its multiplier                                                    *)
C28_Witness ==
    /\ \E p \in Players :
          /\ Len(playerBets[p]) = 1
          /\ playerBets[p][1].numRolls = 2
          /\ playerBets[p][1].multiplier = 8
    /\ ~paused
    /\ \E p \in Players, h \in HashInputs \ {0} :
          click(St, p, h, 10000, 3, 21) = Revert(St, "Invalid multiplier")

(* ---------------------------------------------------------------------- *)
(* What code running inside a token transfer observes: the contract state *)
(* at the moment an outbound transfer of a call is issued, with the       *)
(* balances of that transfer moved, and the receiver of the transfer.     *)
Observed(s, to) == [st |-> s, to |-> to]

(* click that returns: the bet is pulled in, then the burn is sent out,   *)
(* and only then totalBurned, the bet ledger, totalBets and               *)
(* totalBetAmount are written                                             *)
clickTransfers(s, sender, dataHash, betAmount, multiplier, numRolls) ==
    LET totalBet == betAmount * numRolls
        take == transfer(s.balanceOf, sender, GAME, totalBet)
        burnAmount == (totalBet * BURN_PERCENT) \div 100
        burn == burnTransfer(take.bal, burnAmount)
    IN  <<Observed([s EXCEPT !.balanceOf = burn.bal], BURN_ADDRESS)>>

(* _reveal that returns: claimed, totalWins and totalPaidOut are written, *)
(* the burn is sent out, totalBurned is written, the payout is sent out   *)
revealTransfers(s, player, betIndex, secret, salt) ==
    LET b == s.playerBets[player][betIndex + 1]
        wins == rollWins(secret, commitBlockHashOf(b.commitBlock),
                         b.multiplier, b.numRolls, 0)
        grossPayout == grossPayoutOf(b.betAmount, b.multiplier, wins)
        s1 == [s EXCEPT !.playerBets[player][betIndex + 1].claimed = TRUE,
                        !.totalWins = @ + wins,
                        !.totalPaidOut = @ + grossPayout]
        claimBurn == (grossPayout * BURN_PERCENT) \div 100
        burn == burnTransfer(s1.balanceOf, claimBurn)
        atBurn == [s1 EXCEPT !.balanceOf = burn.bal]
        s2 == [atBurn EXCEPT !.totalBurned = @ + claimBurn]
        netPayout == grossPayout - claimBurn
        pay == transfer(s2.balanceOf, GAME, player, netPayout)
    IN  <<Observed(atBurn, BURN_ADDRESS),
          Observed([s2 EXCEPT !.balanceOf = pay.bal], player)>>

(* executeWithdraw that returns: the request is cleared, then the whole   *)
(* balance is sent to the requested destination                           *)
executeWithdrawTransfers(s, sender) ==
    LET to == s.withdrawTo
        amount == s.balanceOf[GAME]
        s1 == [s EXCEPT !.withdrawRequestedAt = 0, !.withdrawTo = ZERO]
        pay == transfer(s1.balanceOf, GAME, to, amount)
    IN  <<Observed([s1 EXCEPT !.balanceOf = pay.bal], to)>>

(* apart from the token balances, the observed state is already the state *)
(* the call ends in                                                       *)
C29_EffectsComplete(h, final) ==
    [h.st EXCEPT !.balanceOf = final.balanceOf] = final

C29_AllComplete(hooks, final) ==
    \A k \in DOMAIN hooks : C29_EffectsComplete(hooks[k], final)

(* C29: in click, reveal, batchReveal and executeWithdraw that return,    *)
(* the bet ledger, the withdrawal request, the pause flag and the         *)
(* lifetime counters already have, at every outbound token transfer of    *)
(* the call, the values the call (for a batch: the reveal of that item)   *)
(* ends with, so that code running inside the transfer sees no update     *)
(* still to come.                                                         *)
C29_ChecksEffectsInteractions ==
    /\ \A p \in Players, h \in HashInputs, a \in BetInputs,
          m \in MultInputs, n \in RollInputs :
          LET r == click(St, p, h, a, m, n)
          IN  r.err = "ok" =>
                 C29_AllComplete(clickTransfers(St, p, h, a, m, n), r.st)
    /\ \A p \in Players, i \in 0..(MaxBets - 1), x \in Secrets, t \in Salts :
          LET r == reveal(St, p, i, x, t)
          IN  r.err = "ok" =>
                 /\ C29_AllComplete(revealTransfers(St, p, i, x, t), r.st)
                 /\ \A j \in 0..(MaxBets - 1), y \in Secrets, u \in Salts :
                       LET r2 == reveal(r.st, p, j, y, u)
                       IN  (r2.err = "ok"
                            /\ batchReveal(St, p, <<i, j>>, <<x, y>>,
                                           <<t, u>>).err = "ok")
                           => C29_AllComplete(
                                  revealTransfers(r.st, p, j, y, u), r2.st)
    /\ \A c \in Callers :
          LET r == executeWithdraw(St, c)
          IN  r.err = "ok" =>
                 C29_AllComplete(executeWithdrawTransfers(St, c), r.st)

(* ---------------------------------------------------------------------- *)
(* ReentrancyGuard: the entry points declared nonReentrant. The owner's   *)
(* functions carry onlyOwner and no guard.                                *)
NonReentrant == {"click", "reveal", "batchReveal"}

(* the guard is entered while a nonReentrant entry point runs, and it     *)
(* refuses a nested call into an entry point that is nonReentrant too     *)
guardRejects(running, entry) ==
    running \in NonReentrant /\ entry \in NonReentrant

(* outcome of a call of entry made while `running` executes, r being what *)
(* the body of entry does in the state the nested call finds              *)
nestedCall(running, entry, r) ==
    IF guardRejects(running, entry)
        THEN Revert(r.st, "ReentrancyGuard: reentrant call")
        ELSE r

(* every call into a state-changing entry point, made in state s while    *)
(* `running` executes, fails                                              *)
C30_NestedRejected(running, s) ==
    /\ \A p \in Players, h \in HashInputs, a \in BetInputs,
          m \in MultInputs, n \in RollInputs :
          nestedCall(running, "click", click(s, p, h, a, m, n)).err # "ok"
    /\ \A p \in Players, i \in 0..(MaxBets - 1), x \in Secrets, t \in Salts :
          /\ nestedCall(running, "reveal", reveal(s, p, i, x, t)).err # "ok"
          /\ nestedCall(running, "batchReveal",
                        batchReveal(s, p, <<i>>, <<x>>, <<t>>)).err # "ok"
    /\ \A c \in Callers :
          /\ \A to \in WithdrawDests :
                nestedCall(running, "requestWithdraw",
                           requestWithdraw(s, c, to)).err # "ok"
          /\ nestedCall(running, "cancelWithdraw",
                        cancelWithdraw(s, c)).err # "ok"
          /\ nestedCall(running, "executeWithdraw",
                        executeWithdraw(s, c)).err # "ok"
          /\ nestedCall(running, "unpause", unpause(s, c)).err # "ok"

C30_HooksRejected(running, hooks) ==
    \A k \in DOMAIN hooks :
        hooks[k].to # BURN_ADDRESS => C30_NestedRejected(running, hooks[k].st)

(* C30: while click, reveal, batchReveal or executeWithdraw is executing  *)
(* a token transfer to a receiver that can run code (a player, the        *)
(* withdrawal destination), every nested call into click, reveal,         *)
(* batchReveal, requestWithdraw, cancelWithdraw, executeWithdraw or       *)
(* unpause, by any caller, fails.                                         *)
C30_ReentrancyGuard ==
    /\ \A p \in Players, h \in HashInputs, a \in BetInputs,
          m \in MultInputs, n \in RollInputs :
          click(St, p, h, a, m, n).err = "ok" =>
              C30_HooksRejected("click", clickTransfers(St, p, h, a, m, n))
    /\ \A p \in Players, i \in 0..(MaxBets - 1), x \in Secrets, t \in Salts :
          /\ reveal(St, p, i, x, t).err = "ok" =>
                C30_HooksRejected("reveal", revealTransfers(St, p, i, x, t))
          /\ batchReveal(St, p, <<i>>, <<x>>, <<t>>).err = "ok" =>
                C30_HooksRejected("batchReveal",
                                  revealTransfers(St, p, i, x, t))
    /\ \A c \in Callers :
          executeWithdraw(St, c).err = "ok" =>
              C30_HooksRejected("executeWithdraw",
                                executeWithdrawTransfers(St, c))

----------------------------------------------------------------------------
(* the reserved total covers the payouts of the bets not yet claimed *)
C31_NeverUnderCounts ==
    totalOutstandingPotentialPayouts >= resReservedLiability(St)

(* a step that raises the reserved total is a click that returns, a step   *)
(* that lowers it is a reveal, a batchReveal or a forfeit that returns;    *)
(* a step that moves the block number, the pause flag, the withdrawal      *)
(* request or the ownership leaves it as it is                             *)
C31_ChangedOnlyBySettlement ==
    LET t == totalOutstandingPotentialPayouts
        u == totalOutstandingPotentialPayouts'
    IN  /\ u > t =>
              \E p \in Players, h \in HashInputs, a \in BetInputs, m \in MultInputs :
                  /\ resClick(St, p, h, a, m).err = "ok"
                  /\ St' = resClick(St, p, h, a, m).st
        /\ u < t =>
              \/ \E p \in Players, i \in 0..MaxBets, x \in Secrets, y \in Salts :
                    /\ resReveal(St, p, i, x, y).err = "ok"
                    /\ St' = resReveal(St, p, i, x, y).st
              \/ \E p \in Players, items \in BatchSeqs(BatchItems) :
                    /\ resBatchRevealItems(St, p, items).err = "ok"
                    /\ St' = resBatchRevealItems(St, p, items).st
              \/ \E p \in Players, i \in 0..MaxBets :
                    /\ resForfeit(St, p, i).err = "ok"
                    /\ St' = resForfeit(St, p, i).st
        /\ ( \/ blockNumber' # blockNumber
             \/ timestamp' # timestamp
             \/ paused' # paused
             \/ withdrawRequestedAt' # withdrawRequestedAt
             \/ withdrawTo' # withdrawTo
             \/ owner' # owner
             \/ pendingOwner' # pendingOwner ) => u = t

(* C31: in the reservation contract the reserved total                     *)
(* totalOutstandingPotentialPayouts changes only by a click that returns   *)
(* (up), and by a reveal, batchReveal or forfeit that returns (down). Steps *)
(* that advance the block number, also past a bet's reveal window, that     *)
(* pause, request, cancel or execute a withdrawal, or that change the       *)
(* ownership leave it as it is, and in every reachable state it is at       *)
(* least the sum of the payouts of the bets not yet claimed.                *)
C31_NoAutomaticRelease ==
    [](C31_NeverUnderCounts) /\ [][C31_ChangedOnlyBySettlement]_vars

(* a bet past its reveal window, never claimed, is still reserved in full, *)
(* in a paused game whose withdrawal has been executed                     *)
C31_Witness ==
    \E b \in OpenBets :
        /\ blockNumber > playerBets[b[1]][b[2] + 1].commitBlock + REVEAL_WINDOW
        /\ paused
        /\ withdrawRequestedAt = 0
        /\ balanceOf[Treasury] > 0
        /\ totalOutstandingPotentialPayouts
              >= resWorstCasePayout(playerBets[b[1]][b[2] + 1])

----------------------------------------------------------------------------
(* a click that returns appends the bet it describes at the index it       *)
(* reports and leaves the bets already stored, of every player, as they    *)
(* are                                                                     *)
C32_Appended(before, r, p, bet) ==
    r.err = "ok" =>
        /\ Len(r.st.playerBets[p]) = Len(before.playerBets[p]) + 1
        /\ clickBetIndex(before, p) = Len(before.playerBets[p])
        /\ r.st.playerBets[p][clickBetIndex(before, p) + 1] = bet
        /\ SubSeq(r.st.playerBets[p], 1, Len(before.playerBets[p]))
              = before.playerBets[p]
        /\ \A q \in Players \ {p} : r.st.playerBets[q] = before.playerBets[q]

C32_ClickAppends ==
    \A p \in Players, h \in HashInputs, a \in BetInputs,
       m \in MultInputs, n \in RollInputs :
        /\ C32_Appended(St, click(St, p, h, a, m, n), p,
                        [dataHash |-> h, commitBlock |-> blockNumber,
                         betAmount |-> a, multiplier |-> m, numRolls |-> n,
                         claimed |-> FALSE])
        /\ C32_Appended(St, clickLegacy(St, p, h, a, m), p,
                        [dataHash |-> h, commitBlock |-> blockNumber,
                         betAmount |-> a, multiplier |-> m, numRolls |-> 1,
                         claimed |-> FALSE])

(* no step shortens a player's bets or changes a stored bet, except to set *)
(* its claimed flag                                                        *)
C32_BetsKept ==
    \A p \in Players :
        /\ Len(playerBets'[p]) >= Len(playerBets[p])
        /\ \A k \in 1..Len(playerBets[p]) :
              /\ [playerBets'[p][k] EXCEPT !.claimed = FALSE]
                    = [playerBets[p][k] EXCEPT !.claimed = FALSE]
              /\ playerBets[p][k].claimed => playerBets'[p][k].claimed

(* C32: the bets of a player are append-only. A click that returns appends *)
(* exactly one bet, holding the hash, the block number, the stake, the     *)
(* multiplier and the number of rolls of the call, at the index equal to   *)
(* the number of bets the player had, which is the index it reports. A     *)
(* player's number of bets never decreases, no bet is removed, and a       *)
(* stored bet's hash, commit block, stake, multiplier and number of rolls  *)
(* never change; its claimed flag changes from false to true only.         *)
C32_AppendOnlyLedger == [](C32_ClickAppends) /\ [][C32_BetsKept]_vars

(* a player holds two bets, the first one settled, the second one open *)
C32_Witness ==
    \E p \in Players :
        /\ Len(playerBets[p]) = 2
        /\ playerBets[p][1].claimed
        /\ ~playerBets[p][2].claimed

----------------------------------------------------------------------------
(* a call of player p leaves the bets and the tokens of every other player *)
(* as they are                                                             *)
C33_OthersUntouched(r, p) ==
    \A q \in Players \ {p} :
        /\ r.st.playerBets[q] = playerBets[q]
        /\ r.st.balanceOf[q] = balanceOf[q]

(* a reveal of p that returns claims the bet of p at that index, releases  *)
(* the payout of that bet and pays it to p                                 *)
C33_SettlesOwn(r, p, i) ==
    r.err = "ok" =>
        LET payout == resWorstCasePayout(playerBets[p][i + 1])
        IN  /\ i < Len(playerBets[p])
            /\ r.st.playerBets[p] = [playerBets[p] EXCEPT ![i + 1].claimed = TRUE]
            /\ r.st.totalOutstandingPotentialPayouts
                  = totalOutstandingPotentialPayouts - payout
            /\ r.st.balanceOf = [balanceOf EXCEPT ![p] = @ + payout,
                                                  ![GAME] = @ - payout]

C33_CallerOnly ==
    \A p \in Players :
        /\ \A i \in 0..MaxBets, x \in Secrets, y \in PresentedSalts :
              /\ C33_OthersUntouched(resReveal(St, p, i, x, y), p)
              /\ C33_SettlesOwn(resReveal(St, p, i, x, y), p, i)
        /\ \A u \in BatchItems, v \in BatchItems :
              /\ C33_OthersUntouched(resBatchRevealItems(St, p, <<u>>), p)
              /\ C33_OthersUntouched(resBatchRevealItems(St, p, <<u, v>>), p)
        /\ \A i \in 0..MaxBets :
              LET r == resForfeit(St, p, i)
              IN  /\ C33_OthersUntouched(r, p)
                  /\ r.err = "ok" =>
                        /\ r.st.playerBets[p]
                              = [playerBets[p] EXCEPT ![i + 1].claimed = TRUE]
                        /\ r.st.balanceOf = balanceOf

(* C33: only the player who committed a bet can settle it. In the          *)
(* reservation contract reveal, batchReveal and forfeit act on the bets of  *)
(* the caller only: whatever the arguments, the bets and the tokens of      *)
(* every other player are left as they are; a reveal that returns marks     *)
(* the caller's own bet claimed, releases that bet's payout from the        *)
(* reserved total and transfers it to the caller; a forfeit that returns    *)
(* marks the caller's own bet claimed and moves no tokens.                  *)
C33_OnlyOwnerSettles == [](C33_CallerOnly)

(* a player's reveal succeeds while the other player holds an open bet *)
(* with the same index that the same secret would win                  *)
C33_Witness ==
    \E p \in Players, q \in Players, i \in 0..(MaxBets - 1),
       x \in Secrets, y \in Salts :
        /\ p # q
        /\ resReveal(St, p, i, x, y).err = "ok"
        /\ resReveal(St, q, i, x, y).err = "ok"

----------------------------------------------------------------------------
(* the call failed with the given error and left the pause flag, the       *)
(* withdrawal request, the owner, the pending owner and the balances alone *)
C34_Refused(r, msg) ==
    /\ r.err = msg
    /\ r.st.paused = paused
    /\ r.st.withdrawRequestedAt = withdrawRequestedAt
    /\ r.st.withdrawTo = withdrawTo
    /\ r.st.owner = owner
    /\ r.st.pendingOwner = pendingOwner
    /\ r.st.balanceOf = balanceOf

(* C34: authorization. Called by anyone but the owner, requestWithdraw,     *)
(* cancelWithdraw, executeWithdraw, unpause, proposeOwner and               *)
(* renounceOwnership fail with "Not owner", whatever their arguments and    *)
(* whatever the state; called by anyone but the pending owner,              *)
(* acceptOwnership fails with "Not pending owner". Each of these failures   *)
(* leaves the pause flag, the withdrawal request, the owner, the pending    *)
(* owner and all token balances unchanged.                                  *)
C34_Authorization ==
    \A c \in Callers :
        /\ c # owner =>
              /\ \A to \in WithdrawDests \cup Callers :
                    C34_Refused(requestWithdraw(St, c, to), "Not owner")
              /\ C34_Refused(cancelWithdraw(St, c), "Not owner")
              /\ C34_Refused(executeWithdraw(St, c), "Not owner")
              /\ C34_Refused(unpause(St, c), "Not owner")
              /\ \A n \in OwnerInputs \cup Callers :
                    C34_Refused(proposeOwner(St, c, n), "Not owner")
              /\ C34_Refused(renounceOwnership(St, c), "Not owner")
        /\ c # pendingOwner =>
              C34_Refused(acceptOwnership(St, c), "Not pending owner")

(* a withdrawal is ready for the owner to execute and an owner is          *)
(* proposed, while a caller who is neither owner nor proposed is refused   *)
C34_Witness ==
    \E c \in Callers :
        /\ c # owner
        /\ c # pendingOwner
        /\ pendingOwner # ZERO
        /\ executeWithdraw(St, owner).err = "ok"
        /\ executeWithdraw(St, c).err = "Not owner"
        /\ acceptOwnership(St, c).err = "Not pending owner"

----------------------------------------------------------------------------
(* C35: withdrawal state. In every reachable state a pending withdrawal    *)
(* request (withdrawRequestedAt other than zero) implies that the game is  *)
(* paused, unpause by the owner fails with "Cancel withdrawal first" while *)
(* a request is pending, and the destination withdrawTo is other than the  *)
(* zero address exactly when a request is pending.                         *)
C35_WithdrawalState ==
    /\ withdrawRequestedAt # 0 => paused
    /\ withdrawRequestedAt # 0 =>
          unpause(St, owner) = Revert(St, "Cancel withdrawal first")
    /\ withdrawTo # ZERO <=> withdrawRequestedAt # 0

(* a request is pending and its delay has elapsed: the game is paused, the *)
(* destination is recorded and the owner's unpause is refused              *)
C35_Witness ==
    /\ withdrawRequestedAt # 0
    /\ timestamp >= withdrawRequestedAt + WITHDRAW_DELAY
    /\ paused
    /\ withdrawTo = Treasury
    /\ unpause(St, owner).err = "Cancel withdrawal first"

----------------------------------------------------------------------------
RECURSIVE C36_SeqSum(_, _)
C36_SeqSum(amounts, i) ==
    IF i > Len(amounts) THEN 0 ELSE amounts[i] + C36_SeqSum(amounts, i + 1)

(* stake times rolls, summed over all bets ever placed *)
C36_AllStakes ==
    sumOver(Players,
            [p \in Players |->
                C36_SeqSum([k \in 1..Len(playerBets[p]) |->
                               playerBets[p][k].betAmount * playerBets[p][k].numRolls],
                           1)])

(* rolls, summed over all bets ever placed *)
C36_AllRolls ==
    sumOver(Players,
            [p \in Players |->
                C36_SeqSum([k \in 1..Len(playerBets[p]) |->
                               playerBets[p][k].numRolls], 1)])

(* a click that returns sends one hundredth of stake times rolls to the *)
(* burn address                                                         *)
C36_ClickBurn ==
    \A p \in Players, h \in HashInputs, a \in BetInputs,
       m \in MultInputs, n \in RollInputs :
        LET r == click(St, p, h, a, m, n)
        IN  r.err = "ok" =>
               /\ 100 * (r.st.balanceOf[BURN_ADDRESS] - balanceOf[BURN_ADDRESS])
                     = a * n
               /\ r.st.totalBurned - totalBurned
                     = r.st.balanceOf[BURN_ADDRESS] - balanceOf[BURN_ADDRESS]

C36_Exact ==
    /\ totalBurned = balanceOf[BURN_ADDRESS]
    /\ totalBetAmount = C36_AllStakes
    /\ totalBets = C36_AllRolls
    /\ totalWins <= totalBets

C36_Monotone ==
    /\ totalBets' >= totalBets
    /\ totalWins' >= totalWins
    /\ totalBetAmount' >= totalBetAmount
    /\ totalPaidOut' >= totalPaidOut
    /\ totalBurned' >= totalBurned

(* C36: the lifetime counters are exact and never decrease. A click that   *)
(* returns sends exactly 1% of stake times rolls to the burn address. In   *)
(* every reachable state totalBurned is the amount the contract has sent   *)
(* to the burn address (the burns of clicks and of reveals), totalBetAmount *)
(* is the sum of stake times rolls over all bets placed, totalBets the sum *)
(* of their rolls, and totalWins is at most totalBets. No step lowers      *)
(* totalBets, totalWins, totalBetAmount, totalPaidOut or totalBurned.      *)
C36_LifetimeCounters ==
    [](C36_ClickBurn) /\ [](C36_Exact) /\ [][C36_Monotone]_vars

(* a bet of two rolls and another bet have been placed, a reveal has won   *)
(* and burned its share, so that the burns exceed those of the clicks      *)
C36_Witness ==
    /\ totalBets = 3
    /\ BetCount = 2
    /\ totalWins > 0
    /\ 100 * totalBurned > totalBetAmount

----------------------------------------------------------------------------
(* the full-range form of click's solvency check is the check click makes: *)
(* a click of an unpaused game with a hash, a stake tier and a multiplier  *)
(* of the list fails as underfunded exactly when it does not hold          *)
C37_CheckOfClick ==
    \A p \in Players, h \in HashInputs \ {0}, a \in BetInputs \cap RES_VALID_BETS,
       m \in MultInputs \cap VALID_MULTIPLIERS :
        /\ resClickCovers(St, a, m)
              <=> resHouseCanCover(St, netBetOf(a), singlePayout(a, m))
        /\ ~paused =>
              (resClick(St, p, h, a, m).err = "House underfunded for this bet"
                 <=> ~resClickCovers(St, a, m))

C37_LargestAffordable ==
    \A a \in RES_VALID_BETS :
        LET M == maxMultiplierForBet(St, a)
            passing == {m \in VALID_MULTIPLIERS : resClickCovers(St, a, m)}
        IN  /\ M = 0 <=> passing = {}
            /\ M # 0 => /\ M \in passing
                        /\ \A m \in passing : m <= M

(* C37: in the reservation contract, for every stake tier and in every     *)
(* reachable state, maxMultiplierForBet(stake) is the largest multiplier   *)
(* of the list for which click's solvency check (balance + net stake >=    *)
(* reserved total + payout) holds in that state, and it is 0 exactly when  *)
(* the check holds for no multiplier of the list.                          *)
C37_MaxMultiplierView == [](C37_CheckOfClick) /\ [](C37_LargestAffordable)

(* payouts are reserved, and the view answers 0 for one tier and a         *)
(* multiplier inside the list for another, which the reserved payouts      *)
(* lower                                                                   *)
C37_Witness ==
    /\ totalOutstandingPotentialPayouts > 0
    /\ \E a \in RES_VALID_BETS : maxMultiplierForBet(St, a) = 0
    /\ \E a \in RES_VALID_BETS :
          /\ maxMultiplierForBet(St, a) \in VALID_MULTIPLIERS \ {1024}
          /\ ~resClickCovers([St EXCEPT !.totalOutstandingPotentialPayouts = 0],
                             a, 1024)
          /\ resClickCovers([St EXCEPT !.totalOutstandingPotentialPayouts = 0],
                            a, 2 * maxMultiplierForBet(St, a))

----------------------------------------------------------------------------
(* C38: the three-argument click is the four-argument click with one roll. *)
(* From every reachable state and for every caller, hash, stake and        *)
(* multiplier, valid or not, click(hash, stake, multiplier) fails exactly  *)
(* when click(hash, stake, multiplier, 1) fails, with the same error and   *)
(* no change, and when they return they leave the same state: the same     *)
(* stored bet (one roll), the same token balances and the same counters.   *)
C38_LegacyClickCompatible ==
    \A p \in Players, h \in HashInputs, a \in BetInputs, m \in MultInputs :
        LET legacy == clickLegacy(St, p, h, a, m)
            multi == click(St, p, h, a, m, 1)
        IN  /\ legacy.err = multi.err
            /\ legacy.st = multi.st
            /\ legacy.err # "ok" => legacy.st = St
            /\ legacy.err = "ok" =>
                  /\ legacy.st.playerBets[p][Len(legacy.st.playerBets[p])].numRolls = 1
                  /\ legacy.st.totalBets = totalBets + 1
                  /\ legacy.st.totalBetAmount = totalBetAmount + a

(* with bets already stored, the legacy click returns for one multiplier *)
(* and is refused by the cap for another, as is the four-argument click  *)
C38_Witness ==
    /\ BetCount > 0
    /\ \E p \in Players, h \in HashInputs :
          /\ clickLegacy(St, p, h, 10000, 2).err = "ok"
          /\ click(St, p, h, 10000, 2, 1).err = "ok"
          /\ clickLegacy(St, p, h, 10000, 8).err = "Payout exceeds max (1/5 of house)"

----------------------------------------------------------------------------
(* every reveal of the bet, whatever the secret, is refused as expired *)
C39_RevealExpired(p, i) ==
    \A x \in Secrets, y \in PresentedSalts :
        resReveal(St, p, i, x, y).err = "Bet expired (>256 blocks)"

(* C39: the countdown agrees with settlement. For every bet of the         *)
(* reservation contract not yet claimed, getBet reports blocksLeft = 0     *)
(* exactly in the states in which reveal of that bet is refused with "Bet  *)
(* expired (>256 blocks)", and so does the entry of the bet in             *)
(* getActiveBets; blocksLeft is never 0 while a reveal of the bet returns. *)
C39_CountdownAgrees ==
    \A p \in Players :
        /\ \A i \in 0..(MaxBets - 1) :
              (i < Len(playerBets[p]) /\ ~playerBets[p][i + 1].claimed) =>
                  /\ resGetBet(St, p, i).err = "ok"
                  /\ resGetBet(St, p, i).blocksLeft = 0 <=> C39_RevealExpired(p, i)
        /\ \A k \in DOMAIN resGetActiveBets(St, p) :
              LET e == resGetActiveBets(St, p)[k]
              IN  e.blocksLeft = 0 <=> C39_RevealExpired(p, e.index)

----------------------------------------------------------------------------
(* C40: the cap check of click is made on the balance before the stake is  *)
(* transferred, and that is the cautious side. Every click that returns,   *)
(* having passed maxPayout <= balance / 5 on the pool balance it found,    *)
(* would pass the same check on the pool balance it leaves, after the      *)
(* stake has come in and 1% of it has been burned: that balance is the     *)
(* earlier one plus 99% of the stake, never less. So the earlier balance   *)
(* admits no click that the later balance would refuse.                    *)
C40_PreTransferCapConservative ==
    \A p \in Players, h \in HashInputs, a \in BetInputs,
       m \in MultInputs, n \in RollInputs :
        LET r == click(St, p, h, a, m, n)
            before == balanceOf[GAME]
            after == r.st.balanceOf[GAME]
        IN  r.err = "ok" =>
               /\ withinMaxPayout(maxPayout(a, m, n), before)
               /\ after = before + a * n - (a * n * BURN_PERCENT) \div 100
               /\ after >= before
               /\ withinMaxPayout(maxPayout(a, m, n), after)

(* one click is admitted, and another is refused by the cap on the balance *)
(* before the transfer although the balance after it would admit it        *)
C40_Witness ==
    \E p \in Players, h \in HashInputs :
        /\ click(St, p, h, 10000, 2, 1).err = "ok"
        /\ click(St, p, h, 10000, 8, 2).err = "Payout exceeds max (1/5 of house)"
        /\ withinMaxPayout(maxPayout(10000, 8, 2),
                           clickTransfers(St, p, h, 10000, 8, 2)[1].st.balanceOf[GAME])
====
